---- MODULE Spec2Model ----
(***************************************************************************)
(* Model of terraform-provider-clerk: the ClerkClient key-routing registry *)
(* (internal/client/client.go), the per-instance Backend API facade        *)
(* (backend_api.go, organization_api.go), the Platform API facade          *)
(* (platform_api.go) and the resource adapters built on them.              *)
(*                                                                         *)
(* Identifier strings (application ids, environment names, import ids)     *)
(* are sequences of one-character strings, so that concatenation and       *)
(* splitting on "/" are computed as the Go code computes them.             *)
(***************************************************************************)
EXTENDS Integers, Sequences, FiniteSets, TLC

VARIABLES
    backendClients,  \* ClerkClient.backendClients: map key -> *clerk.ClientConfig
    registered,      \* history: pair <<appID, env>> -> secret keys passed to RegisterBackendClient
    lastOp,          \* the operation that ran last: its arguments, requests sent and results
    envState,        \* Terraform state of one clerk_environment resource (<<>> when absent)
    appState,        \* Terraform state of one clerk_application resource (<<>> when absent)
    orgState,        \* Terraform state of one clerk_organization resource (<<>> when absent)
    mu,              \* ClerkClient.mu: the sync.RWMutex guarding backendClients
    pc,              \* per goroutine: position inside RegisterBackendClient / GetBackendConfig
    frame,           \* per goroutine: arguments and locals of the running call
    provider,        \* ClerkProvider.Configure: its inputs, its response and the clients it built
    orgData,         \* state of one data.clerk_organization data source (<<>> when absent)
    appData          \* state of one data.clerk_application data source (<<>> when absent)

vars == <<backendClients, registered, lastOp, envState, appState, orgState, mu, pc, frame, provider, orgData, appData>>

----------------------------------------------------------------------------
(* Strings and optional values *)

Nil == <<>>
Some(x) == <<x>>

\* The element of a one-element set: The({e : x \in {v}}) is e with x bound
\* to the value v.
The(S) == CHOOSE x \in S : TRUE

Slash == "/"
Development == <<"d","e","v","e","l","o","p","m","e","n","t">>
Production == <<"p","r","o","d","u","c","t","i","o","n">>
Staging == <<"s","t","a","g","i","n","g">>
App1 == <<"a","p","p","_","1">>
App2 == <<"a","p","p","_","2">>

AppIDs == {App1, App2}
EnvNames == {Development, Production}
SecretKeys == {"sk_test_dev", "sk_live_prod"}
PlatformKey == "platform-key"

Pairs == AppIDs \X EnvNames

----------------------------------------------------------------------------
(* Errors: Go error values, by the call that made them *)

NoError == [kind |-> "nil", wrap |-> "", status |-> 0, body |-> ""]
Err(kind) == [kind |-> kind, wrap |-> "", status |-> 0, body |-> ""]
Wrap(prefix, e) == [e EXCEPT !.wrap = prefix]
PlatformAPIError(status, body) ==
    [kind |-> "PlatformAPIError", wrap |-> "", status |-> status, body |-> body]

----------------------------------------------------------------------------
(* client.go: the registry *)

backendClientKey_NoEnv(appID, environment) == appID

backendClientKey(appID, environment) == appID \o <<Slash>> \o environment

NewClerkClient == << >>

RegisterBackendClient_Evicting(m, appID, environment, secretKey) ==
    LET key == backendClientKey(appID, environment)
        config == [Key |-> Some(secretKey), URL |-> Nil]
    IN  [k \in {key} |-> config]

RegisterBackendClient_KeepFirst(m, appID, environment, secretKey) ==
    LET key == backendClientKey(appID, environment)
        config == [Key |-> Some(secretKey), URL |-> Nil]
    IN  [k \in DOMAIN m \cup {key} |-> IF k \in DOMAIN m THEN m[k] ELSE config]

RegisterBackendClient_OverwriteAll(m, appID, environment, secretKey) ==
    LET key == backendClientKey(appID, environment)
        config == [Key |-> Some(secretKey), URL |-> Nil]
    IN  [k \in DOMAIN m \cup {key} |-> config]

RegisterBackendClient(m, appID, environment, secretKey) ==
    LET key == backendClientKey(appID, environment)
        config == [Key |-> Some(secretKey), URL |-> Nil]
    IN  [k \in DOMAIN m \cup {key} |-> IF k = key THEN config ELSE m[k]]

GetBackendConfig_AnyEntry(m, appID, environment) ==
    IF DOMAIN m = {}
    THEN [config |-> Nil, err |-> Err("no backend client registered")]
    ELSE [config |-> Some(m[CHOOSE k \in DOMAIN m : TRUE]), err |-> NoError]

GetBackendConfig(m, appID, environment) ==
    LET key == backendClientKey(appID, environment)
    IN  IF key \notin DOMAIN m
        THEN [config |-> Nil, err |-> Err("no backend client registered")]
        ELSE [config |-> Some(m[key]), err |-> NoError]

----------------------------------------------------------------------------
(* The vendor SDK client built from a registry entry: one HTTP request,    *)
(* authenticated with the entry's key; a non-2xx answer or a transport     *)
(* failure comes back as an error, a 2xx answer as the decoded response.   *)

BackendRequest(config, method, path, body) ==
    [api |-> "backend", method |-> method, path |-> path,
     auth |-> config.Key, body |-> body, query |-> {}]

OutcomeError(outcome) ==
    CASE outcome.kind = "ok" -> NoError
      [] outcome.kind = "api" ->
            [kind |-> "APIErrorResponse", wrap |-> "", status |-> outcome.status, body |-> ""]
      [] OTHER -> Err("transport")

sdkCall(config, method, path, body, outcome) ==
    [reqs |-> <<BackendRequest(config, method, path, body)>>,
     err |-> OutcomeError(outcome),
     resp |-> IF outcome.kind = "ok" THEN Some(outcome.resp) ELSE Nil]

NoCall(err) == [reqs |-> << >>, err |-> err, resp |-> Nil]

----------------------------------------------------------------------------
(* backend_api.go: per-instance settings facade *)

GetInstanceSettingsClient(m, appID, environment) ==
    LET r == GetBackendConfig(m, appID, environment)
    IN  IF r.err # NoError
        THEN [client |-> Nil, err |-> Wrap("resolving backend client", r.err)]
        ELSE [client |-> r.config, err |-> NoError]

UpdateInstanceSettings_NoLookup(m, appID, environment, params, outcome) ==
    LET r == sdkCall([Key |-> Nil, URL |-> Nil], "PATCH", <<"/v1/instance">>, Some(params), outcome)
    IN  [r EXCEPT !.resp = Nil]

UpdateInstanceSettings(m, appID, environment, params, outcome) ==
    LET c == GetInstanceSettingsClient(m, appID, environment)
    IN  IF c.err # NoError
        THEN NoCall(c.err)
        ELSE LET r == sdkCall(c.client[1], "PATCH", <<"/v1/instance">>, Some(params), outcome)
             IN  [r EXCEPT !.resp = Nil]

UpdateInstanceRestrictions(m, appID, environment, params, outcome) ==
    LET c == GetInstanceSettingsClient(m, appID, environment)
    IN  IF c.err # NoError
        THEN NoCall(c.err)
        ELSE sdkCall(c.client[1], "PATCH", <<"/v1/instance/restrictions">>, Some(params), outcome)

UpdateOrganizationSettings(m, appID, environment, params, outcome) ==
    LET c == GetInstanceSettingsClient(m, appID, environment)
    IN  IF c.err # NoError
        THEN NoCall(c.err)
        ELSE sdkCall(c.client[1], "PATCH", <<"/v1/instance/organization_settings">>, Some(params), outcome)

----------------------------------------------------------------------------
(* organization_api.go: per-instance organization facade *)

CreateOrganization(m, appID, environment, params, outcome) ==
    LET r == GetBackendConfig(m, appID, environment)
    IN  IF r.err # NoError
        THEN NoCall(Wrap("resolving backend client", r.err))
        ELSE sdkCall(r.config[1], "POST", <<"/v1/organizations">>, Some(params), outcome)

GetOrganization(m, appID, environment, idOrSlug, outcome) ==
    LET r == GetBackendConfig(m, appID, environment)
    IN  IF r.err # NoError
        THEN NoCall(Wrap("resolving backend client", r.err))
        ELSE sdkCall(r.config[1], "GET", <<"/v1/organizations/", idOrSlug>>, Nil, outcome)

UpdateOrganization(m, appID, environment, id, params, outcome) ==
    LET r == GetBackendConfig(m, appID, environment)
    IN  IF r.err # NoError
        THEN NoCall(Wrap("resolving backend client", r.err))
        ELSE sdkCall(r.config[1], "PATCH", <<"/v1/organizations/", id>>, Some(params), outcome)

DeleteOrganization(m, appID, environment, id, outcome) ==
    LET r == GetBackendConfig(m, appID, environment)
    IN  IF r.err # NoError
        THEN NoCall(Wrap("resolving backend client", r.err))
        ELSE sdkCall(r.config[1], "DELETE", <<"/v1/organizations/", id>>, Nil, outcome)


----------------------------------------------------------------------------
(* platform_api.go: workspace-level facade *)

platformAPIBaseURL == "https://api.clerk.com/v1"

\* net/url rejects a URL that contains an ASCII control character, which
\* makes http.NewRequestWithContext fail before anything is sent.
CTL == "\n"
ValidURL(url) == \A i \in 1..Len(url) : url[i] # CTL

\* Response bodies, by their JSON shape.
BodyApplication == "application-object"
BodyApplicationNoSecrets == "application-object-without-secret-keys"
BodyApplicationList == "application-array"
BodyDeletedTrue == "deleted-object-true"
BodyDeletedFalse == "deleted-object-false"
BodyErrorObject == "error-object"
BodyNotJSON == "not-json"

JSONObjects == {BodyApplication, BodyApplicationNoSecrets, BodyDeletedTrue,
                BodyDeletedFalse, BodyErrorObject}
Bodies == JSONObjects \cup {BodyApplicationList, BodyNotJSON}

Instance(id, envType, pk, sk) ==
    [InstanceID |-> id, EnvironmentType |-> envType, PublishableKey |-> pk, SecretKey |-> sk]

ApplicationWithSecrets ==
    [ApplicationID |-> App1,
     Instances |-> <<Instance("ins_dev", Development, "pk_test_dev", "sk_test_dev"),
                     Instance("ins_prod", Production, "pk_live_prod", "sk_live_prod")>>]

ApplicationNoSecrets ==
    [ApplicationID |-> App1,
     Instances |-> <<Instance("ins_dev", Development, "pk_test_dev", ""),
                     Instance("ins_stg", Staging, "pk_stg", "sk_stg")>>]

ZeroApplication == [ApplicationID |-> << >>, Instances |-> << >>]

\* json.Unmarshal into PlatformApplicationResponse: any JSON object decodes
\* (unknown fields are ignored, missing fields stay zero); anything else fails.
UnmarshalApplication(body) ==
    CASE body = BodyApplication -> [ok |-> TRUE, v |-> ApplicationWithSecrets]
      [] body = BodyApplicationNoSecrets -> [ok |-> TRUE, v |-> ApplicationNoSecrets]
      [] body \in JSONObjects -> [ok |-> TRUE, v |-> ZeroApplication]
      [] OTHER -> [ok |-> FALSE, v |-> ZeroApplication]

\* json.Unmarshal into PlatformDeletedObjectResponse.
UnmarshalDeleted(body) ==
    CASE body = BodyDeletedTrue -> [ok |-> TRUE, Deleted |-> TRUE]
      [] body \in JSONObjects -> [ok |-> TRUE, Deleted |-> FALSE]
      [] OTHER -> [ok |-> FALSE, Deleted |-> FALSE]

\* json.Unmarshal into []PlatformApplicationResponse.
UnmarshalApplicationList(body) ==
    IF body = BodyApplicationList
    THEN [ok |-> TRUE, v |-> <<ApplicationWithSecrets>>]
    ELSE [ok |-> FALSE, v |-> << >>]

\* url.Parse, inside http.NewRequestWithContext: the URL string is cut at
\* its first "?" into the path and the raw query. Here a key and a value of
\* a query string are one element each, joined by "=" and separated by "&".
QueryStart(url) ==
    IF \E i \in 1..Len(url) : url[i] = "?"
    THEN CHOOSE i \in 1..Len(url) : url[i] = "?" /\ \A j \in 1..(i - 1) : url[j] # "?"
    ELSE 0

URLPath(url) == IF QueryStart(url) = 0 THEN url ELSE SubSeq(url, 1, QueryStart(url) - 1)

RawQuery(url) ==
    IF QueryStart(url) = 0 THEN << >> ELSE SubSeq(url, QueryStart(url) + 1, Len(url))

\* req.URL.Query(): the parameters of a raw query.
RECURSIVE ParseQuery(_)
ParseQuery(raw) ==
    IF raw = << >>
    THEN {}
    ELSE LET n == IF \E i \in 1..Len(raw) : raw[i] = "&"
                  THEN CHOOSE i \in 1..Len(raw) :
                           raw[i] = "&" /\ \A j \in 1..(i - 1) : raw[j] # "&"
                  ELSE Len(raw) + 1
             piece == SubSeq(raw, 1, n - 1)
             pair == IF Len(piece) >= 3 /\ piece[2] = "="
                     THEN {<<piece[1], piece[3]>>}
                     ELSE IF piece # << >> THEN {<<piece[1], "">>} ELSE {}
         IN  pair \cup ParseQuery(SubSeq(raw, n + 1, Len(raw)))

\* The query the request is sent with: what the URL string held, and, when
\* the query argument is not nil, each of its parameters set over that.
RequestQuery(url, query) ==
    {p \in ParseQuery(RawQuery(url)) : \A s \in query : p[1] # s[1]} \cup query

PlatformRequestRecord(apiKey, method, url, body, query) ==
    [api |-> "platform", method |-> method, path |-> URLPath(url),
     auth |-> Some(apiKey), body |-> body, query |-> RequestQuery(url, query)]

platformRequest_Accept3xx(apiKey, method, path, body, query, outcome) ==
    LET url == <<platformAPIBaseURL>> \o path
        req == PlatformRequestRecord(apiKey, method, url, body, query)
    IN  IF ~ValidURL(url)
        THEN [reqs |-> << >>, err |-> Wrap("creating request", Err("url")), resp |-> Nil]
        ELSE IF outcome.kind = "transport"
        THEN [reqs |-> <<req>>, err |-> Wrap("executing request", Err("transport")), resp |-> Nil]
        ELSE IF outcome.kind = "readfail"
        THEN [reqs |-> <<req>>, err |-> Wrap("reading response body", Err("read")), resp |-> Nil]
        ELSE IF outcome.status < 200 \/ outcome.status >= 400
        THEN [reqs |-> <<req>>, err |-> PlatformAPIError(outcome.status, outcome.body), resp |-> Nil]
        ELSE [reqs |-> <<req>>, err |-> NoError, resp |-> Some(outcome.body)]

platformRequest_Retry(apiKey, method, path, body, query, outcome) ==
    LET url == <<platformAPIBaseURL>> \o path
        req == PlatformRequestRecord(apiKey, method, url, body, query)
    IN  IF ~ValidURL(url)
        THEN [reqs |-> << >>, err |-> Wrap("creating request", Err("url")), resp |-> Nil]
        ELSE IF outcome.kind = "transport"
        THEN [reqs |-> <<req, req>>, err |-> Wrap("executing request", Err("transport")), resp |-> Nil]
        ELSE IF outcome.kind = "readfail"
        THEN [reqs |-> <<req>>, err |-> Wrap("reading response body", Err("read")), resp |-> Nil]
        ELSE IF outcome.status < 200 \/ outcome.status >= 300
        THEN [reqs |-> <<req, req>>, err |-> PlatformAPIError(outcome.status, outcome.body), resp |-> Nil]
        ELSE [reqs |-> <<req>>, err |-> NoError, resp |-> Some(outcome.body)]

platformRequest(apiKey, method, path, body, query, outcome) ==
    LET url == <<platformAPIBaseURL>> \o path
        req == PlatformRequestRecord(apiKey, method, url, body, query)
    IN  IF ~ValidURL(url)
        THEN [reqs |-> << >>, err |-> Wrap("creating request", Err("url")), resp |-> Nil]
        ELSE IF outcome.kind = "transport"
        THEN [reqs |-> <<req>>, err |-> Wrap("executing request", Err("transport")), resp |-> Nil]
        ELSE IF outcome.kind = "readfail"
        THEN [reqs |-> <<req>>, err |-> Wrap("reading response body", Err("read")), resp |-> Nil]
        ELSE IF outcome.status < 200 \/ outcome.status >= 300
        THEN [reqs |-> <<req>>, err |-> PlatformAPIError(outcome.status, outcome.body), resp |-> Nil]
        ELSE [reqs |-> <<req>>, err |-> NoError, resp |-> Some(outcome.body)]

\* The common tail of the four calls that decode an application.
DecodeApplication(r, what) ==
    IF r.err # NoError
    THEN [reqs |-> r.reqs, err |-> r.err, resp |-> Nil]
    ELSE LET u == UnmarshalApplication(r.resp[1])
         IN  IF ~u.ok
             THEN [reqs |-> r.reqs, err |-> Wrap(what, Err("json")), resp |-> Nil]
             ELSE [reqs |-> r.reqs, err |-> NoError, resp |-> Some(u.v)]

CreateApplication(apiKey, req, outcome) ==
    DecodeApplication(
        platformRequest(apiKey, "POST", <<"/platform/applications">>, Some(req), {}, outcome),
        "unmarshaling create response")

IncludeSecretKeysQuery_Always(includeSecretKeys) ==
    {<<"include_secret_keys", "true">>}

IncludeSecretKeysQuery(includeSecretKeys) ==
    IF includeSecretKeys THEN {<<"include_secret_keys", "true">>} ELSE {}

GetApplication(apiKey, applicationID, includeSecretKeys, outcome) ==
    DecodeApplication(
        platformRequest(apiKey, "GET", <<"/platform/applications/">> \o applicationID, Nil,
                        IncludeSecretKeysQuery(includeSecretKeys), outcome),
        "unmarshaling get response")

UpdateApplication(apiKey, applicationID, req, outcome) ==
    DecodeApplication(
        platformRequest(apiKey, "PATCH", <<"/platform/applications/">> \o applicationID,
                        Some(req), {}, outcome),
        "unmarshaling update response")

DeleteApplication_IgnoreDeleted(apiKey, applicationID, outcome) ==
    LET r == platformRequest(apiKey, "DELETE", <<"/platform/applications/">> \o applicationID,
                             Nil, {}, outcome)
    IN  IF r.err # NoError
        THEN [reqs |-> r.reqs, err |-> r.err, resp |-> Nil]
        ELSE LET u == UnmarshalDeleted(r.resp[1])
             IN  IF ~u.ok
                 THEN [reqs |-> r.reqs, err |-> Wrap("unmarshaling delete response", Err("json")), resp |-> Nil]
                 ELSE [reqs |-> r.reqs, err |-> NoError, resp |-> Nil]

DeleteApplication(apiKey, applicationID, outcome) ==
    LET r == platformRequest(apiKey, "DELETE", <<"/platform/applications/">> \o applicationID,
                             Nil, {}, outcome)
    IN  IF r.err # NoError
        THEN [reqs |-> r.reqs, err |-> r.err, resp |-> Nil]
        ELSE LET u == UnmarshalDeleted(r.resp[1])
             IN  IF ~u.ok
                 THEN [reqs |-> r.reqs, err |-> Wrap("unmarshaling delete response", Err("json")), resp |-> Nil]
                 ELSE IF ~u.Deleted
                 THEN [reqs |-> r.reqs, err |-> Err("application was not deleted"), resp |-> Nil]
                 ELSE [reqs |-> r.reqs, err |-> NoError, resp |-> Nil]

ListApplications(apiKey, includeSecretKeys, outcome) ==
    LET r == platformRequest(apiKey, "GET", <<"/platform/applications">>, Nil,
                             IncludeSecretKeysQuery(includeSecretKeys), outcome)
    IN  IF r.err # NoError
        THEN [reqs |-> r.reqs, err |-> r.err, resp |-> Nil]
        ELSE LET u == UnmarshalApplicationList(r.resp[1])
             IN  IF ~u.ok
                 THEN [reqs |-> r.reqs, err |-> Wrap("unmarshaling list response", Err("json")), resp |-> Nil]
                 ELSE [reqs |-> r.reqs, err |-> NoError, resp |-> Some(u.v)]


----------------------------------------------------------------------------
(* Request parameters of the vendor SDK (pointer fields: Nil when unset)   *)
(* and the Backend API's answers.                                          *)

ZeroUpdateParams ==
    [TestMode |-> Nil, HIBP |-> Nil, EnhancedEmailDeliverability |-> Nil,
     SupportEmail |-> Nil, ClerkJSVersion |-> Nil, URLBasedSessionSyncing |-> Nil,
     DevelopmentOrigin |-> Nil]

ZeroRestrictionsParams ==
    [Allowlist |-> Nil, Blocklist |-> Nil, BlockEmailSubaddresses |-> Nil,
     BlockDisposableEmailDomains |-> Nil, IgnoreDotsForGmailAddresses |-> Nil]

ZeroOrganizationSettingsParams ==
    [Enabled |-> Nil, MaxAllowedMemberships |-> Nil, CreatorRoleID |-> Nil,
     AdminDeleteEnabled |-> Nil, DomainsEnabled |-> Nil,
     DomainsEnrollmentModes |-> Nil, DomainsDefaultRoleID |-> Nil]

Given(p, dflt) == IF p # Nil THEN p[1] ELSE dflt

\* PATCH /v1/instance/restrictions answers with the instance's restrictions
\* after the update: every field sent has the value sent, every other field
\* keeps the value the instance had (remote).
ServerRestrictions(params, remote) ==
    [Allowlist |-> Given(params.Allowlist, remote.Allowlist),
     Blocklist |-> Given(params.Blocklist, remote.Blocklist),
     BlockEmailSubaddresses |-> Given(params.BlockEmailSubaddresses, remote.BlockEmailSubaddresses),
     BlockDisposableEmailDomains |->
        Given(params.BlockDisposableEmailDomains, remote.BlockDisposableEmailDomains),
     IgnoreDotsForGmailAddresses |->
        Given(params.IgnoreDotsForGmailAddresses, remote.IgnoreDotsForGmailAddresses)]

\* PATCH /v1/instance/organization_settings likewise; the answer names roles
\* by key (creator_role, domains_default_role), not by the id that was sent.
ServerOrganizationSettings(params, remote) ==
    [Enabled |-> Given(params.Enabled, remote.Enabled),
     MaxAllowedMemberships |-> Given(params.MaxAllowedMemberships, remote.MaxAllowedMemberships),
     AdminDeleteEnabled |-> Given(params.AdminDeleteEnabled, remote.AdminDeleteEnabled),
     DomainsEnabled |-> Given(params.DomainsEnabled, remote.DomainsEnabled),
     DomainsEnrollmentModes |->
        Given(params.DomainsEnrollmentModes, remote.DomainsEnrollmentModes),
     CreatorRole |-> remote.CreatorRole,
     DomainsDefaultRole |-> remote.DomainsDefaultRole]

RemoteRestrictions ==
    {[Allowlist |-> b, Blocklist |-> FALSE, BlockEmailSubaddresses |-> FALSE,
      BlockDisposableEmailDomains |-> ~b, IgnoreDotsForGmailAddresses |-> FALSE] :
        b \in BOOLEAN}

RemoteOrganizationSettings ==
    {[Enabled |-> b, MaxAllowedMemberships |-> n, AdminDeleteEnabled |-> TRUE,
      DomainsEnabled |-> FALSE, DomainsEnrollmentModes |-> << >>,
      CreatorRole |-> "org:admin", DomainsDefaultRole |-> "org:member"] :
        b \in BOOLEAN, n \in {5}}

FailureOutcomes ==
    {[kind |-> "api", status |-> 404], [kind |-> "api", status |-> 422],
     [kind |-> "transport", status |-> 0]}

OkOutcome(resp) == [kind |-> "ok", status |-> 200, resp |-> resp]


----------------------------------------------------------------------------
(* State shared by the specifications *)

MaxEntries == 2      \* registry entries a run may create

Goroutines == {"g1", "g2", "g3"}

OpRecord(op, appID, env, r) ==
    [op |-> op, appID |-> appID, env |-> env, reqs |-> r.reqs, err |-> r.err,
     resp |-> r.resp, cfg |-> Nil, diags |-> << >>, prior |-> Nil, outcome |-> Nil,
     plan |-> Nil, args |-> Nil]

NoOp == OpRecord("none", << >>, << >>, NoCall(NoError))

NeverRegistered == [last |-> Nil, ever |-> {}]

IdleMutex == [writer |-> Nil, readers |-> {}]
IdleFrame == [op |-> "idle", appID |-> << >>, env |-> << >>, secretKey |-> "",
              config |-> Nil, result |-> Nil, err |-> NoError]

InitClient ==
    /\ backendClients = NewClerkClient
    /\ registered = [p \in Pairs |-> NeverRegistered]
    /\ lastOp = NoOp

InitResources ==
    /\ envState = Nil
    /\ appState = Nil
    /\ orgState = Nil

InitGoroutines ==
    /\ mu = IdleMutex
    /\ pc = [g \in Goroutines |-> "idle"]
    /\ frame = [g \in Goroutines |-> IdleFrame]

\* The provider before Configure has been called: no response, no client
\* allocated, and neither a resource nor a data source holds a client.
Unconfigured ==
    [configured |-> FALSE, config |-> Nil, environ |-> "", diags |-> << >>,
     ResourceData |-> Nil, DataSourceData |-> Nil, heap |-> << >>,
     resourceClient |-> Nil, dataSourceClient |-> Nil]

InitProvider ==
    /\ provider = Unconfigured
    /\ orgData = Nil
    /\ appData = Nil

Init == InitClient /\ InitResources /\ InitGoroutines /\ InitProvider

----------------------------------------------------------------------------
(* Spec: the ClerkClient used by one caller at a time *)

OrgID == "org_test123"
CreateOrgParams == [Name |-> Some("Test Org")]
UpdateOrgParams == [Name |-> Some("Updated Org")]
Organization == [ID |-> OrgID, Name |-> "Test Org", Slug |-> "test-org"]
DeletedOrganization == [ID |-> OrgID, Deleted |-> TRUE]

SampleUpdateParams == [ZeroUpdateParams EXCEPT !.HIBP = Some(TRUE)]
SampleRestrictionsParams == [ZeroRestrictionsParams EXCEPT !.Allowlist = Some(TRUE)]
SampleOrganizationSettingsParams ==
    [ZeroOrganizationSettingsParams EXCEPT !.Enabled = Some(TRUE),
                                           !.MaxAllowedMemberships = Some(10)]

BackendOutcomes(resps) == FailureOutcomes \cup {OkOutcome(r) : r \in resps}

\* Everything but lastOp: what a call that only returns a result leaves alone.
others == <<backendClients, registered, envState, appState, orgState, mu, pc, frame, provider, orgData, appData>>

DoRegisterBackendClient ==
    \E appID \in AppIDs, env \in EnvNames, secretKey \in SecretKeys :
        /\ Cardinality(DOMAIN backendClients \cup {backendClientKey(appID, env)}) <= MaxEntries
        /\ backendClients' = RegisterBackendClient(backendClients, appID, env, secretKey)
        /\ registered' = [registered EXCEPT ![<<appID, env>>] =
                             [last |-> Some(secretKey), ever |-> @.ever \cup {secretKey}]]
        /\ lastOp' = OpRecord("RegisterBackendClient", appID, env, NoCall(NoError))
        /\ UNCHANGED <<envState, appState, orgState, mu, pc, frame, provider, orgData, appData>>

DoGetBackendConfig ==
    \E appID \in AppIDs, env \in EnvNames :
        LET r == GetBackendConfig(backendClients, appID, env)
        IN  /\ lastOp' = [OpRecord("GetBackendConfig", appID, env, NoCall(r.err))
                            EXCEPT !.cfg = r.config]
            /\ UNCHANGED others

DoUpdateInstanceSettings ==
    \E appID \in AppIDs, env \in EnvNames, o \in BackendOutcomes({Nil}) :
        /\ lastOp' = OpRecord("UpdateInstanceSettings", appID, env,
            UpdateInstanceSettings(backendClients, appID, env, SampleUpdateParams, o))
        /\ UNCHANGED others

DoUpdateInstanceRestrictions ==
    \E appID \in AppIDs, env \in EnvNames,
       o \in BackendOutcomes({ServerRestrictions(SampleRestrictionsParams, rem) :
                                 rem \in RemoteRestrictions}) :
        /\ lastOp' = OpRecord("UpdateInstanceRestrictions", appID, env,
            UpdateInstanceRestrictions(backendClients, appID, env, SampleRestrictionsParams, o))
        /\ UNCHANGED others

DoUpdateOrganizationSettings ==
    \E appID \in AppIDs, env \in EnvNames,
       o \in BackendOutcomes({ServerOrganizationSettings(SampleOrganizationSettingsParams, rem) :
                                 rem \in RemoteOrganizationSettings}) :
        /\ lastOp' = OpRecord("UpdateOrganizationSettings", appID, env,
            UpdateOrganizationSettings(backendClients, appID, env,
                                       SampleOrganizationSettingsParams, o))
        /\ UNCHANGED others

DoCreateOrganization ==
    \E appID \in AppIDs, env \in EnvNames, o \in BackendOutcomes({Organization}) :
        /\ lastOp' = OpRecord("CreateOrganization", appID, env,
            CreateOrganization(backendClients, appID, env, CreateOrgParams, o))
        /\ UNCHANGED others

DoGetOrganization ==
    \E appID \in AppIDs, env \in EnvNames, o \in BackendOutcomes({Organization}) :
        /\ lastOp' = OpRecord("GetOrganization", appID, env,
            GetOrganization(backendClients, appID, env, OrgID, o))
        /\ UNCHANGED others

DoUpdateOrganization ==
    \E appID \in AppIDs, env \in EnvNames, o \in BackendOutcomes({Organization}) :
        /\ lastOp' = OpRecord("UpdateOrganization", appID, env,
            UpdateOrganization(backendClients, appID, env, OrgID, UpdateOrgParams, o))
        /\ UNCHANGED others

DoDeleteOrganization ==
    \E appID \in AppIDs, env \in EnvNames, o \in BackendOutcomes({DeletedOrganization}) :
        /\ lastOp' = OpRecord("DeleteOrganization", appID, env,
            DeleteOrganization(backendClients, appID, env, OrgID, o))
        /\ UNCHANGED others

PerInstanceOps ==
    {"UpdateInstanceSettings", "UpdateInstanceRestrictions", "UpdateOrganizationSettings",
     "CreateOrganization", "GetOrganization", "UpdateOrganization", "DeleteOrganization"}

Next ==
    \/ DoRegisterBackendClient
    \/ DoGetBackendConfig
    \/ DoUpdateInstanceSettings
    \/ DoUpdateInstanceRestrictions
    \/ DoUpdateOrganizationSettings
    \/ DoCreateOrganization
    \/ DoGetOrganization
    \/ DoUpdateOrganization
    \/ DoDeleteOrganization

Spec == Init /\ [][Next]_vars

----------------------------------------------------------------------------
(* C1: a lookup of a pair returns the configuration that was registered    *)
(* for it last (the same secret key, no error); a lookup of a pair that    *)
(* was never registered returns an error and no configuration.             *)
RegisterThenLookup ==
    lastOp.op = "GetBackendConfig" =>
        LET h == registered[<<lastOp.appID, lastOp.env>>]
        IN  IF h.last = Nil
            THEN lastOp.err # NoError /\ lastOp.cfg = Nil
            ELSE /\ lastOp.err = NoError
                 /\ lastOp.cfg # Nil
                 /\ lastOp.cfg[1].Key = h.last

RegisterThenLookupWitness ==
    /\ lastOp.op = "GetBackendConfig"
    /\ lastOp.cfg # Nil
    /\ \E p \in Pairs : registered[p].last = Nil
    /\ \E p \in Pairs : Cardinality(registered[p].ever) = 2

LookupUnregisteredWitness ==
    /\ lastOp.op = "GetBackendConfig"
    /\ lastOp.cfg = Nil
    /\ backendClients # NewClerkClient

(* C2: a per-instance operation called for a pair that has no registry     *)
(* entry returns an error and sends no HTTP request.                       *)
NoEntryNoRequest ==
    (/\ lastOp.op \in PerInstanceOps
     /\ backendClientKey(lastOp.appID, lastOp.env) \notin DOMAIN backendClients)
        => lastOp.err # NoError /\ lastOp.reqs = << >>

NoEntryNoRequestWitness ==
    /\ lastOp.op \in PerInstanceOps
    /\ backendClientKey(lastOp.appID, lastOp.env) \notin DOMAIN backendClients
    /\ backendClients # NewClerkClient
    /\ lastOp.err.kind = "no backend client registered"


----------------------------------------------------------------------------
(* SpecPlatform: the workspace-level facade, one call at a time *)

AppMalformed == <<"a", "p", "p", CTL>>
AppWithQuery == <<"a", "p", "p", "_", "1", "?", "include_secret_keys", "=", "true">>
PlatformAppIDs == {App1, AppMalformed}

Statuses == {199, 200, 204, 299, 300, 404, 500}

PlatformOutcomes ==
    {[kind |-> "response", status |-> st, body |-> b] : st \in Statuses, b \in Bodies}
        \cup {[kind |-> k, status |-> 0, body |-> ""] : k \in {"transport", "readfail"}}

CreateRequest ==
    [Name |-> "test-app", Domain |-> "", ProxyPath |-> "", EnvironmentTypes |-> << >>,
     Template |-> ""]
UpdateRequest == [Name |-> "updated-name"]

PlatformOp(op, applicationID, o, r) ==
    [OpRecord(op, applicationID, << >>, r) EXCEPT !.outcome = Some(o)]

DoCreateApplication ==
    \E o \in PlatformOutcomes :
        /\ lastOp' = PlatformOp("CreateApplication", << >>, o, CreateApplication(PlatformKey, CreateRequest, o))
        /\ UNCHANGED others

DoGetApplication ==
    \E id \in PlatformAppIDs \cup {AppWithQuery}, flag \in BOOLEAN, o \in PlatformOutcomes :
        /\ lastOp' = [PlatformOp("GetApplication", id, o, GetApplication(PlatformKey, id, flag, o))
                          EXCEPT !.args = Some(flag)]
        /\ UNCHANGED others

DoUpdateApplication ==
    \E id \in PlatformAppIDs, o \in PlatformOutcomes :
        /\ lastOp' = PlatformOp("UpdateApplication", id, o, UpdateApplication(PlatformKey, id, UpdateRequest, o))
        /\ UNCHANGED others

DoDeleteApplication ==
    \E id \in PlatformAppIDs, o \in PlatformOutcomes :
        /\ lastOp' = PlatformOp("DeleteApplication", id, o, DeleteApplication(PlatformKey, id, o))
        /\ UNCHANGED others

DoListApplications ==
    \E flag \in BOOLEAN, o \in PlatformOutcomes :
        /\ lastOp' = [PlatformOp("ListApplications", << >>, o, ListApplications(PlatformKey, flag, o))
                          EXCEPT !.args = Some(flag)]
        /\ UNCHANGED others

PlatformOps ==
    {"CreateApplication", "GetApplication", "UpdateApplication", "DeleteApplication",
     "ListApplications"}

NextPlatform ==
    \/ DoCreateApplication
    \/ DoGetApplication
    \/ DoUpdateApplication
    \/ DoDeleteApplication
    \/ DoListApplications

SpecPlatform == Init /\ [][NextPlatform]_vars

\* The call got an HTTP response: the request could be built and sent and
\* the body could be read.
Responded == lastOp.reqs # << >> /\ lastOp.outcome[1].kind = "response"

(* C10: a Platform API call returns a PlatformAPIError exactly when the    *)
(* HTTP status of the response is outside 200..299; the error carries the  *)
(* status code and the raw body, and each of the five operations returns   *)
(* it unchanged.                                                           *)
PlatformErrorIffNon2xx ==
    lastOp.op \in PlatformOps =>
        LET o == lastOp.outcome[1]
        IN  IF Responded /\ (o.status < 200 \/ o.status > 299)
            THEN lastOp.err = PlatformAPIError(o.status, o.body)
            ELSE lastOp.err.kind # "PlatformAPIError"

PlatformErrorIffNon2xxWitness ==
    /\ lastOp.op = "DeleteApplication"
    /\ Responded
    /\ lastOp.outcome[1].status = 300
    /\ lastOp.err = PlatformAPIError(300, BodyDeletedTrue)


----------------------------------------------------------------------------
(* Terraform attribute values (types.Bool, types.String, types.Int64,      *)
(* types.List, types.Object): null, unknown or known. ValueBool,           *)
(* ValueString and ValueInt64 of a null or unknown value are the zero      *)
(* value, which is what v holds then.                                      *)

BoolNull == [st |-> "null", v |-> FALSE]
BoolUnknown == [st |-> "unknown", v |-> FALSE]
BoolValue(b) == [st |-> "known", v |-> b]

StringNull == [st |-> "null", v |-> ""]
StringUnknown == [st |-> "unknown", v |-> ""]
StringValue(x) == [st |-> "known", v |-> x]

\* application_id, environment and id hold identifier strings.
IdentNull == [st |-> "null", v |-> << >>]
IdentUnknown == [st |-> "unknown", v |-> << >>]

Int64Null == [st |-> "null", v |-> 0]
Int64Unknown == [st |-> "unknown", v |-> 0]
Int64Value(n) == [st |-> "known", v |-> n]

ListNull == [st |-> "null", v |-> << >>]
ListUnknown == [st |-> "unknown", v |-> << >>]
ListValue(elems) == [st |-> "known", v |-> elems]

IsNull(a) == a.st = "null"
IsUnknown(a) == a.st = "unknown"
IsSet(a) == ~IsNull(a) /\ ~IsUnknown(a)

\* A pointer to the attribute's value when it is neither null nor unknown.
PtrIfSet(a) == IF IsSet(a) THEN Some(a.v) ELSE Nil

\* RestrictionsModel
RestrictionsModel(al, bl, sub, disp, dots) ==
    [Allowlist |-> al, Blocklist |-> bl, BlockEmailSubaddresses |-> sub,
     BlockDisposableEmailDomains |-> disp, IgnoreDotsForGmailAddresses |-> dots]

\* OrganizationSettingsModel
OrganizationSettingsModel(en, max, creator, adminDel, dom, modes, domRole) ==
    [Enabled |-> en, MaxAllowedMemberships |-> max, CreatorRoleID |-> creator,
     AdminDeleteEnabled |-> adminDel, DomainsEnabled |-> dom,
     DomainsEnrollmentModes |-> modes, DomainsDefaultRoleID |-> domRole]

NoRestrictions == RestrictionsModel(BoolNull, BoolNull, BoolNull, BoolNull, BoolNull)
NoOrganizationSettings ==
    OrganizationSettingsModel(BoolNull, Int64Null, StringNull, BoolNull, BoolNull,
                              ListNull, StringNull)

RestrictionsNull == [st |-> "null", v |-> NoRestrictions]
RestrictionsUnknown == [st |-> "unknown", v |-> NoRestrictions]
OrganizationSettingsNull == [st |-> "null", v |-> NoOrganizationSettings]
OrganizationSettingsUnknown == [st |-> "unknown", v |-> NoOrganizationSettings]
ObjectValue(model) == [st |-> "known", v |-> model]

\* EnvironmentResourceModel; settings holds the seven instance settings.
EnvironmentResourceModel(id, appID, env, settings, restrictions, orgSettings) ==
    [ID |-> id, ApplicationID |-> appID, Environment |-> env,
     TestMode |-> settings.TestMode, HIBP |-> settings.HIBP,
     EnhancedEmailDeliverability |-> settings.EnhancedEmailDeliverability,
     SupportEmail |-> settings.SupportEmail, ClerkJSVersion |-> settings.ClerkJSVersion,
     URLBasedSessionSyncing |-> settings.URLBasedSessionSyncing,
     DevelopmentOrigin |-> settings.DevelopmentOrigin,
     Restrictions |-> restrictions, OrganizationSettings |-> orgSettings]

InstanceSettings(b, str) ==
    [TestMode |-> b, HIBP |-> b, EnhancedEmailDeliverability |-> b, SupportEmail |-> str,
     ClerkJSVersion |-> str, URLBasedSessionSyncing |-> b, DevelopmentOrigin |-> str]

\* Diagnostics
ErrorDiag(summary) == [severity |-> "error", summary |-> summary]
WarningDiag(summary) == [severity |-> "warning", summary |-> summary]
HasError(diags) == \E i \in 1..Len(diags) : diags[i].severity = "error"


----------------------------------------------------------------------------
(* resources/environment.go: the clerk_environment resource *)

\* What the Backend API does with one call of a handler: it fails, or it
\* succeeds on an instance whose settings were remote before the call.
Answer(eo, resp) ==
    IF eo.kind = "ok" THEN OkOutcome(resp) ELSE [kind |-> eo.kind, status |-> eo.status]

\* The outcome of one settings step: the plan as the step leaves it, the
\* diagnostics it appended and the requests it sent.
StepResult(plan, diags, reqs) == [plan |-> plan, diags |-> diags, reqs |-> reqs]

applyInstanceSettings_Always(m, appID, env, plan, eo) ==
    LET params == [TestMode |-> PtrIfSet(plan.TestMode), HIBP |-> PtrIfSet(plan.HIBP),
                   EnhancedEmailDeliverability |-> PtrIfSet(plan.EnhancedEmailDeliverability),
                   SupportEmail |-> PtrIfSet(plan.SupportEmail),
                   ClerkJSVersion |-> PtrIfSet(plan.ClerkJSVersion),
                   URLBasedSessionSyncing |-> PtrIfSet(plan.URLBasedSessionSyncing),
                   DevelopmentOrigin |-> PtrIfSet(plan.DevelopmentOrigin)]
        r == UpdateInstanceSettings(m, appID, env, params, Answer(eo, Nil))
    IN  StepResult(plan,
                   IF r.err # NoError
                   THEN <<ErrorDiag("Error updating instance settings")>> ELSE << >>,
                   r.reqs)

applyInstanceSettings(m, appID, env, plan, eo) ==
    LET params == [TestMode |-> PtrIfSet(plan.TestMode), HIBP |-> PtrIfSet(plan.HIBP),
                   EnhancedEmailDeliverability |-> PtrIfSet(plan.EnhancedEmailDeliverability),
                   SupportEmail |-> PtrIfSet(plan.SupportEmail),
                   ClerkJSVersion |-> PtrIfSet(plan.ClerkJSVersion),
                   URLBasedSessionSyncing |-> PtrIfSet(plan.URLBasedSessionSyncing),
                   DevelopmentOrigin |-> PtrIfSet(plan.DevelopmentOrigin)]
        hasChanges == \E f \in DOMAIN params : params[f] # Nil
    IN  IF ~hasChanges
        THEN StepResult(plan, << >>, << >>)
        ELSE LET r == UpdateInstanceSettings(m, appID, env, params, Answer(eo, Nil))
             IN  StepResult(plan,
                            IF r.err # NoError
                            THEN <<ErrorDiag("Error updating instance settings")>> ELSE << >>,
                            r.reqs)

applyRestrictions_KeepPlan(m, appID, env, plan, eo) ==
    IF IsNull(plan.Restrictions) \/ IsUnknown(plan.Restrictions)
    THEN StepResult(plan, << >>, << >>)
    ELSE LET restrictions == plan.Restrictions.v
             params ==
                [Allowlist |-> PtrIfSet(restrictions.Allowlist),
                 Blocklist |-> PtrIfSet(restrictions.Blocklist),
                 BlockEmailSubaddresses |-> PtrIfSet(restrictions.BlockEmailSubaddresses),
                 BlockDisposableEmailDomains |->
                    PtrIfSet(restrictions.BlockDisposableEmailDomains),
                 IgnoreDotsForGmailAddresses |->
                    PtrIfSet(restrictions.IgnoreDotsForGmailAddresses)]
             r == UpdateInstanceRestrictions(m, appID, env, params,
                      Answer(eo, ServerRestrictions(params, eo.remote)))
         IN  IF r.err # NoError
             THEN StepResult(plan, <<ErrorDiag("Error updating instance restrictions")>>, r.reqs)
             ELSE StepResult(plan, << >>, r.reqs)

applyRestrictions(m, appID, env, plan, eo) ==
    IF IsNull(plan.Restrictions) \/ IsUnknown(plan.Restrictions)
    THEN StepResult(plan, << >>, << >>)
    ELSE LET restrictions == plan.Restrictions.v
             params ==
                [Allowlist |-> PtrIfSet(restrictions.Allowlist),
                 Blocklist |-> PtrIfSet(restrictions.Blocklist),
                 BlockEmailSubaddresses |-> PtrIfSet(restrictions.BlockEmailSubaddresses),
                 BlockDisposableEmailDomains |->
                    PtrIfSet(restrictions.BlockDisposableEmailDomains),
                 IgnoreDotsForGmailAddresses |->
                    PtrIfSet(restrictions.IgnoreDotsForGmailAddresses)]
             r == UpdateInstanceRestrictions(m, appID, env, params,
                      Answer(eo, ServerRestrictions(params, eo.remote)))
         IN  IF r.err # NoError
             THEN StepResult(plan, <<ErrorDiag("Error updating instance restrictions")>>, r.reqs)
             ELSE LET result == r.resp[1]
                      restrictionsObj ==
                         ObjectValue(RestrictionsModel(
                             BoolValue(result.Allowlist), BoolValue(result.Blocklist),
                             BoolValue(result.BlockEmailSubaddresses),
                             BoolValue(result.BlockDisposableEmailDomains),
                             BoolValue(result.IgnoreDotsForGmailAddresses)))
                  IN  StepResult([plan EXCEPT !.Restrictions = restrictionsObj], << >>, r.reqs)

\* List.ElementsAs(ctx, &modes, false): an error unless every element is a
\* known string.
ElementsAs(list) ==
    IF \E i \in 1..Len(list.v) : ~IsSet(list.v[i])
    THEN [elems |-> << >>, diags |-> <<ErrorDiag("Value Conversion Error")>>]
    ELSE [elems |-> [i \in 1..Len(list.v) |-> list.v[i].v], diags |-> << >>]

\* types.ListValueFrom(ctx, types.StringType, slice)
ListValueFrom(slice) == ListValue([i \in 1..Len(slice) |-> StringValue(slice[i])])


\* applyOrganizationSettings, the request parameters: a field is sent exactly
\* when the plan holds a known value for it.
organizationSettingsParams_NoMax(orgSettings) ==
    LET modes == IF IsSet(orgSettings.DomainsEnrollmentModes)
                 THEN ElementsAs(orgSettings.DomainsEnrollmentModes)
                 ELSE [elems |-> << >>, diags |-> << >>]
    IN  [params |->
            [Enabled |-> PtrIfSet(orgSettings.Enabled),
             MaxAllowedMemberships |-> Nil,
             CreatorRoleID |-> PtrIfSet(orgSettings.CreatorRoleID),
             AdminDeleteEnabled |-> PtrIfSet(orgSettings.AdminDeleteEnabled),
             DomainsEnabled |-> PtrIfSet(orgSettings.DomainsEnabled),
             DomainsEnrollmentModes |->
                IF IsSet(orgSettings.DomainsEnrollmentModes) THEN Some(modes.elems) ELSE Nil,
             DomainsDefaultRoleID |-> PtrIfSet(orgSettings.DomainsDefaultRoleID)],
         diags |-> modes.diags]

organizationSettingsParams(orgSettings) ==
    LET modes == IF IsSet(orgSettings.DomainsEnrollmentModes)
                 THEN ElementsAs(orgSettings.DomainsEnrollmentModes)
                 ELSE [elems |-> << >>, diags |-> << >>]
    IN  [params |->
            [Enabled |-> PtrIfSet(orgSettings.Enabled),
             MaxAllowedMemberships |-> PtrIfSet(orgSettings.MaxAllowedMemberships),
             CreatorRoleID |-> PtrIfSet(orgSettings.CreatorRoleID),
             AdminDeleteEnabled |-> PtrIfSet(orgSettings.AdminDeleteEnabled),
             DomainsEnabled |-> PtrIfSet(orgSettings.DomainsEnabled),
             DomainsEnrollmentModes |->
                IF IsSet(orgSettings.DomainsEnrollmentModes) THEN Some(modes.elems) ELSE Nil,
             DomainsDefaultRoleID |-> PtrIfSet(orgSettings.DomainsDefaultRoleID)],
         diags |-> modes.diags]

\* applyOrganizationSettings, the object written to the plan after a
\* successful call: the answer's values, and the planned role ids.
organizationSettingsObject_FromResponse(orgSettings, result) ==
    ObjectValue(OrganizationSettingsModel(
        BoolValue(result.Enabled), Int64Value(result.MaxAllowedMemberships),
        StringValue(result.CreatorRole), BoolValue(result.AdminDeleteEnabled),
        BoolValue(result.DomainsEnabled), ListValueFrom(result.DomainsEnrollmentModes),
        StringValue(result.DomainsDefaultRole)))

organizationSettingsObject(orgSettings, result) ==
    ObjectValue(OrganizationSettingsModel(
        BoolValue(result.Enabled), Int64Value(result.MaxAllowedMemberships),
        orgSettings.CreatorRoleID, BoolValue(result.AdminDeleteEnabled),
        BoolValue(result.DomainsEnabled), ListValueFrom(result.DomainsEnrollmentModes),
        orgSettings.DomainsDefaultRoleID))

applyOrganizationSettings(m, appID, env, plan, eo) ==
    IF IsNull(plan.OrganizationSettings) \/ IsUnknown(plan.OrganizationSettings)
    THEN StepResult(plan, << >>, << >>)
    ELSE LET orgSettings == plan.OrganizationSettings.v
             p == organizationSettingsParams(orgSettings)
         IN  IF HasError(p.diags)
             THEN StepResult(plan, p.diags, << >>)
             ELSE LET r == UpdateOrganizationSettings(m, appID, env, p.params,
                               Answer(eo, ServerOrganizationSettings(p.params, eo.remote)))
                  IN  IF r.err # NoError
                      THEN StepResult(plan,
                               <<ErrorDiag("Error updating organization settings")>>, r.reqs)
                      ELSE StepResult(
                               [plan EXCEPT !.OrganizationSettings =
                                   organizationSettingsObject(orgSettings, r.resp[1])],
                               << >>, r.reqs)

applySettings_ContinueAfterError(m, plan, eos) ==
    The({StepResult(s3.plan, s1.diags \o s2.diags \o s3.diags, s1.reqs \o s2.reqs \o s3.reqs) :
         s3 \in {applyOrganizationSettings(
                    m, plan.ApplicationID.v, plan.Environment.v,
                    applyRestrictions(m, plan.ApplicationID.v, plan.Environment.v,
                                      plan, eos.restrictions).plan,
                    eos.organization)},
         s2 \in {applyRestrictions(m, plan.ApplicationID.v, plan.Environment.v,
                                   plan, eos.restrictions)},
         s1 \in {applyInstanceSettings(m, plan.ApplicationID.v, plan.Environment.v,
                                       plan, eos.settings)}})

\* applySettings: the three steps in order, stopping at the first error.
\* eos holds what the Backend API does with each step's call.
applySettings(m, plan, eos) ==
    The({IF HasError(s1.diags)
         THEN s1
         ELSE The({IF HasError(s2.diags)
                   THEN StepResult(s2.plan, s1.diags \o s2.diags, s1.reqs \o s2.reqs)
                   ELSE The({StepResult(s3.plan, s1.diags \o s2.diags \o s3.diags,
                                        s1.reqs \o s2.reqs \o s3.reqs) :
                             s3 \in {applyOrganizationSettings(
                                        m, plan.ApplicationID.v, plan.Environment.v,
                                        s2.plan, eos.organization)}}) :
                   s2 \in {applyRestrictions(m, plan.ApplicationID.v, plan.Environment.v,
                                             s1.plan, eos.restrictions)}}) :
         s1 \in {applyInstanceSettings(m, plan.ApplicationID.v, plan.Environment.v,
                                       plan, eos.settings)}})

\* The answer of a handler to the host: the state the response carries (Nil:
\* no resource), its diagnostics, and the requests the handler sent.
HandlerResult(state, diags, reqs) == [state |-> state, diags |-> diags, reqs |-> reqs]

EnvironmentCreate_NoID(m, plan, eos) ==
    LET a == applySettings(m, plan, eos)
    IN  IF HasError(a.diags)
        THEN HandlerResult(Nil, a.diags, a.reqs)
        ELSE HandlerResult(Some(a.plan), a.diags, a.reqs)

EnvironmentCreate(m, plan, eos) ==
    LET appID == plan.ApplicationID.v
        env == plan.Environment.v
        a == applySettings(m, [plan EXCEPT !.ID = StringValue(appID \o <<Slash>> \o env)], eos)
    IN  IF HasError(a.diags)
        THEN HandlerResult(Nil, a.diags, a.reqs)
        ELSE HandlerResult(Some(a.plan), a.diags, a.reqs)

EnvironmentRead_Forget(state) == HandlerResult(Nil, << >>, << >>)

EnvironmentRead(state) == HandlerResult(Some(state), << >>, << >>)

EnvironmentUpdate_SavePartial(m, state, plan, eos) ==
    LET a == applySettings(m, plan, eos)
    IN  HandlerResult(Some(a.plan), a.diags, a.reqs)

EnvironmentUpdate(m, state, plan, eos) ==
    LET a == applySettings(m, plan, eos)
    IN  IF HasError(a.diags)
        THEN HandlerResult(Some(state), a.diags, a.reqs)
        ELSE HandlerResult(Some(a.plan), a.diags, a.reqs)


\* Delete, after each reset call: a failure becomes a warning.
resetDiag_Error(summary, err) ==
    IF err # NoError THEN <<ErrorDiag(summary)>> ELSE << >>

resetDiag(summary, err) ==
    IF err # NoError THEN <<WarningDiag(summary)>> ELSE << >>

EnvironmentDelete_StopAtFailure(m, state, eos) ==
    LET appID == state.ApplicationID.v
        env == state.Environment.v
        settings == [TestMode |-> Some(FALSE), HIBP |-> Some(TRUE),
                     EnhancedEmailDeliverability |-> Some(TRUE), SupportEmail |-> Some(""),
                     ClerkJSVersion |-> Some(""), URLBasedSessionSyncing |-> Some(FALSE),
                     DevelopmentOrigin |-> Some("")]
        restrictions == [Allowlist |-> Some(FALSE), Blocklist |-> Some(FALSE),
                         BlockEmailSubaddresses |-> Some(FALSE),
                         BlockDisposableEmailDomains |-> Some(FALSE),
                         IgnoreDotsForGmailAddresses |-> Some(FALSE)]
        organization == [ZeroOrganizationSettingsParams EXCEPT
                            !.Enabled = Some(FALSE), !.AdminDeleteEnabled = Some(FALSE),
                            !.DomainsEnabled = Some(FALSE)]
        r1 == UpdateInstanceSettings(m, appID, env, settings, Answer(eos.settings, Nil))
        r2 == IF r1.err # NoError
              THEN NoCall(NoError)
              ELSE UpdateInstanceRestrictions(m, appID, env, restrictions,
                       Answer(eos.restrictions,
                              ServerRestrictions(restrictions, eos.restrictions.remote)))
        r3 == IF r1.err # NoError \/ r2.err # NoError
              THEN NoCall(NoError)
              ELSE UpdateOrganizationSettings(m, appID, env, organization,
                       Answer(eos.organization,
                              ServerOrganizationSettings(organization, eos.organization.remote)))
        diags == resetDiag("Failed to reset instance settings", r1.err)
                 \o resetDiag("Failed to reset instance restrictions", r2.err)
                 \o resetDiag("Failed to reset organization settings", r3.err)
    IN  HandlerResult(IF HasError(diags) THEN Some(state) ELSE Nil,
                      diags, r1.reqs \o r2.reqs \o r3.reqs)

\* Delete resets the instance to hard-coded defaults with three calls, all
\* of which are made whatever the earlier ones returned. The handler sets no
\* state: the host removes the resource when the handler returns without an
\* error diagnostic and keeps it otherwise.
EnvironmentDelete(m, state, eos) ==
    LET appID == state.ApplicationID.v
        env == state.Environment.v
        settings == [TestMode |-> Some(FALSE), HIBP |-> Some(TRUE),
                     EnhancedEmailDeliverability |-> Some(TRUE), SupportEmail |-> Some(""),
                     ClerkJSVersion |-> Some(""), URLBasedSessionSyncing |-> Some(FALSE),
                     DevelopmentOrigin |-> Some("")]
        restrictions == [Allowlist |-> Some(FALSE), Blocklist |-> Some(FALSE),
                         BlockEmailSubaddresses |-> Some(FALSE),
                         BlockDisposableEmailDomains |-> Some(FALSE),
                         IgnoreDotsForGmailAddresses |-> Some(FALSE)]
        organization == [ZeroOrganizationSettingsParams EXCEPT
                            !.Enabled = Some(FALSE), !.AdminDeleteEnabled = Some(FALSE),
                            !.DomainsEnabled = Some(FALSE)]
        r1 == UpdateInstanceSettings(m, appID, env, settings, Answer(eos.settings, Nil))
        r2 == UpdateInstanceRestrictions(m, appID, env, restrictions,
                  Answer(eos.restrictions,
                         ServerRestrictions(restrictions, eos.restrictions.remote)))
        r3 == UpdateOrganizationSettings(m, appID, env, organization,
                  Answer(eos.organization,
                         ServerOrganizationSettings(organization, eos.organization.remote)))
        diags == resetDiag("Failed to reset instance settings", r1.err)
                 \o resetDiag("Failed to reset instance restrictions", r2.err)
                 \o resetDiag("Failed to reset organization settings", r3.err)
    IN  HandlerResult(IF HasError(diags) THEN Some(state) ELSE Nil,
                      diags, r1.reqs \o r2.reqs \o r3.reqs)

\* strings.Index: the position of the first sep in s, 0 when there is none.
Index_Last(s, sep) ==
    IF \E i \in 1..Len(s) : s[i] = sep
    THEN CHOOSE i \in 1..Len(s) : s[i] = sep /\ \A j \in (i + 1)..Len(s) : s[j] # sep
    ELSE 0

Index(s, sep) ==
    IF \E i \in 1..Len(s) : s[i] = sep
    THEN CHOOSE i \in 1..Len(s) : s[i] = sep /\ \A j \in 1..(i - 1) : s[j] # sep
    ELSE 0

\* strings.SplitN(s, sep, 2): s cut at its first sep, or s alone.
SplitN2(s, sep) ==
    LET i == Index(s, sep)
    IN  IF i = 0 THEN <<s>> ELSE <<SubSeq(s, 1, i - 1), SubSeq(s, i + 1, Len(s))>>

\* The state ImportState builds attribute by attribute from an empty one.
ImportedState(id, appID, env) ==
    EnvironmentResourceModel(StringValue(id), StringValue(appID), StringValue(env),
                             InstanceSettings(BoolNull, StringNull),
                             RestrictionsNull, OrganizationSettingsNull)

EnvironmentImportState(id) ==
    LET parts == SplitN2(id, Slash)
    IN  IF Len(parts) # 2 \/ parts[1] = << >> \/ parts[2] = << >>
        THEN HandlerResult(Nil, <<ErrorDiag("Invalid Import ID")>>, << >>)
        ELSE IF parts[2] # Development /\ parts[2] # Production
        THEN HandlerResult(Nil, <<ErrorDiag("Invalid Environment")>>, << >>)
        ELSE HandlerResult(Some(ImportedState(id, parts[1], parts[2])), << >>, << >>)


----------------------------------------------------------------------------
(* SpecEnvironment: the host drives one clerk_environment resource through *)
(* its lifecycle on a configured provider.                                 *)

\* The provider was configured with both instances of App1; App2 has none.
InitEnvironment ==
    /\ backendClients =
          RegisterBackendClient(
              RegisterBackendClient(NewClerkClient, App1, Development, "sk_test_dev"),
              App1, Production, "sk_live_prod")
    /\ registered = [p \in Pairs |->
                        IF p = <<App1, Development>>
                        THEN [last |-> Some("sk_test_dev"), ever |-> {"sk_test_dev"}]
                        ELSE IF p = <<App1, Production>>
                        THEN [last |-> Some("sk_live_prod"), ever |-> {"sk_live_prod"}]
                        ELSE NeverRegistered]
    /\ lastOp = NoOp
    /\ InitResources
    /\ InitGoroutines
    /\ InitProvider

\* Planned values. An Optional+Computed attribute the configuration leaves
\* unset is unknown in the plan.
SettingsUnset == InstanceSettings(BoolUnknown, StringUnknown)
SettingsBasic ==
    [SettingsUnset EXCEPT !.HIBP = BoolValue(TRUE),
                          !.SupportEmail = StringValue("support@test.com")]
SettingsFull ==
    [TestMode |-> BoolValue(TRUE), HIBP |-> BoolValue(FALSE),
     EnhancedEmailDeliverability |-> BoolValue(TRUE),
     SupportEmail |-> StringValue("support@test.com"),
     ClerkJSVersion |-> StringValue("5"), URLBasedSessionSyncing |-> BoolValue(TRUE),
     DevelopmentOrigin |-> StringValue("http://localhost:3000")]

RestrictionsPartial ==
    ObjectValue(RestrictionsModel(BoolUnknown, BoolUnknown, BoolValue(TRUE), BoolValue(TRUE),
                                  BoolUnknown))

OrgEnabledMax ==
    ObjectValue(OrganizationSettingsModel(BoolValue(TRUE), Int64Value(10), StringUnknown,
                                          BoolUnknown, BoolUnknown, ListUnknown, StringUnknown))
OrgFull ==
    ObjectValue(OrganizationSettingsModel(
        BoolValue(FALSE), Int64Value(25), StringValue("role_admin"), BoolValue(TRUE),
        BoolValue(TRUE), ListValue(<<StringValue("automatic_invitation")>>),
        StringValue("role_member")))
OrgUnknownMode ==
    ObjectValue([OrgEnabledMax.v EXCEPT !.DomainsEnrollmentModes = ListValue(<<StringUnknown>>)])

\* restrictions = {} and organization_settings = {}: the block is there and
\* none of its attributes is set.
RestrictionsEmpty ==
    ObjectValue(RestrictionsModel(BoolUnknown, BoolUnknown, BoolUnknown, BoolUnknown,
                                  BoolUnknown))
OrgEmpty ==
    ObjectValue(OrganizationSettingsModel(BoolUnknown, Int64Unknown, StringUnknown,
                                          BoolUnknown, BoolUnknown, ListUnknown, StringUnknown))

PlanTemplates ==
    {[settings |-> SettingsUnset, restrictions |-> RestrictionsUnknown,
      organization |-> OrganizationSettingsUnknown],
     [settings |-> SettingsBasic, restrictions |-> RestrictionsUnknown,
      organization |-> OrganizationSettingsUnknown],
     [settings |-> SettingsUnset, restrictions |-> RestrictionsPartial,
      organization |-> OrganizationSettingsUnknown],
     [settings |-> SettingsUnset, restrictions |-> RestrictionsUnknown,
      organization |-> OrgEnabledMax],
     [settings |-> SettingsFull, restrictions |-> RestrictionsPartial,
      organization |-> OrgFull],
     [settings |-> SettingsBasic, restrictions |-> RestrictionsUnknown,
      organization |-> OrgUnknownMode],
     [settings |-> SettingsUnset, restrictions |-> RestrictionsEmpty,
      organization |-> OrgEmpty]}

Plan(id, appID, env, t) ==
    EnvironmentResourceModel(id, StringValue(appID), StringValue(env),
                             t.settings, t.restrictions, t.organization)

EnvFailures ==
    {[kind |-> "api", status |-> 422, remote |-> Nil],
     [kind |-> "transport", status |-> 0, remote |-> Nil]}

EnvOutcomes(remotes, failures) ==
    {[kind |-> "ok", status |-> 200, remote |-> rem] : rem \in remotes} \cup failures

\* What the Backend API does with the three calls of a Delete.
ResetOutcomes ==
    [settings : EnvOutcomes({Nil}, EnvFailures),
     restrictions : EnvOutcomes(RemoteRestrictions, EnvFailures),
     organization : EnvOutcomes(RemoteOrganizationSettings, EnvFailures)]

\* What it does with the calls of a Create or an Update, which report every
\* failure alike.
ApplyOutcomes ==
    [settings : EnvOutcomes({Nil}, {[kind |-> "api", status |-> 422, remote |-> Nil]}),
     restrictions : EnvOutcomes(RemoteRestrictions,
                                {[kind |-> "transport", status |-> 0, remote |-> Nil]}),
     organization : EnvOutcomes(RemoteOrganizationSettings,
                                {[kind |-> "api", status |-> 422, remote |-> Nil]})]

HandlerOp(op, appID, env, plan, eos, r) ==
    [OpRecord(op, appID, env, [reqs |-> r.reqs, err |-> NoError, resp |-> Nil])
        EXCEPT !.diags = r.diags, !.plan = plan, !.outcome = eos]

clientVars == <<backendClients, registered, appState, orgState, mu, pc, frame, provider, orgData, appData>>


Join(a, b) == a \o <<Slash>> \o b

ImportIDs ==
    {Join(a, e) : a \in {App1, App2, << >>, Join(<<"a">>, App1)},
                  e \in {Development, Production, Staging, << >>, Join(Development, <<"x">>)}}
    \cup {App1, Development, << >>}

DoEnvironmentCreate ==
    /\ envState = Nil
    /\ \E appID \in AppIDs, env \in EnvNames, t \in PlanTemplates, eos \in ApplyOutcomes :
        \E r \in {EnvironmentCreate(backendClients, Plan(IdentUnknown, appID, env, t), eos)} :
            /\ envState' = r.state
            /\ lastOp' = HandlerOp("EnvironmentCreate", appID, env,
                                   Some(Plan(IdentUnknown, appID, env, t)), Some(eos), r)
            /\ UNCHANGED clientVars

DoEnvironmentRead ==
    /\ envState # Nil
    /\ \E r \in {EnvironmentRead(envState[1])} :
        /\ envState' = r.state
        /\ lastOp' = HandlerOp("EnvironmentRead", envState[1].ApplicationID.v,
                               envState[1].Environment.v, Nil, Nil, r)
        /\ UNCHANGED clientVars

\* application_id and environment require replacement, and id keeps its state
\* value, so the plan of an update carries the state's three identifiers.
DoEnvironmentUpdate ==
    /\ envState # Nil
    /\ \E t \in PlanTemplates, eos \in ApplyOutcomes :
        \E plan \in {Plan(envState[1].ID, envState[1].ApplicationID.v,
                          envState[1].Environment.v, t)} :
            \E r \in {EnvironmentUpdate(backendClients, envState[1], plan, eos)} :
                /\ envState' = r.state
                /\ lastOp' = HandlerOp("EnvironmentUpdate", envState[1].ApplicationID.v,
                                       envState[1].Environment.v, Some(plan), Some(eos), r)
                /\ UNCHANGED clientVars

DoEnvironmentDelete ==
    /\ envState # Nil
    /\ \E eos \in ResetOutcomes :
        \E r \in {EnvironmentDelete(backendClients, envState[1], eos)} :
            /\ envState' = r.state
            /\ lastOp' = [HandlerOp("EnvironmentDelete", envState[1].ApplicationID.v,
                                    envState[1].Environment.v, Nil, Some(eos), r)
                              EXCEPT !.prior = envState]
            /\ UNCHANGED clientVars

\* The host imports into an address that holds no resource yet; the import
\* id is kept in lastOp.appID.
DoEnvironmentImportState ==
    /\ envState = Nil
    /\ \E id \in ImportIDs :
        \E r \in {EnvironmentImportState(id)} :
            /\ envState' = r.state
            /\ lastOp' = HandlerOp("EnvironmentImportState", id, << >>, Nil, Nil, r)
            /\ UNCHANGED clientVars

NextEnvironment ==
    \/ DoEnvironmentCreate
    \/ DoEnvironmentRead
    \/ DoEnvironmentUpdate
    \/ DoEnvironmentDelete
    \/ DoEnvironmentImportState

SpecEnvironment == InitEnvironment /\ [][NextEnvironment]_vars


----------------------------------------------------------------------------
(* C6: Delete of a clerk_environment turns every failure of its three      *)
(* reset calls (an API error, a transport error, no registry entry for the *)
(* pair) into one warning and never into an error, so the resource leaves  *)
(* the state; only PATCH requests are sent, so the instance keeps          *)
(* existing.                                                               *)
ResetSteps == {"settings", "restrictions", "organization"}

DeleteOnlyWarns ==
    lastOp.op = "EnvironmentDelete" =>
        LET eos == lastOp.outcome[1]
            unregistered ==
                backendClientKey(lastOp.appID, lastOp.env) \notin DOMAIN backendClients
            failed == {st \in ResetSteps : unregistered \/ eos[st].kind # "ok"}
        IN  /\ ~HasError(lastOp.diags)
            /\ \A i \in 1..Len(lastOp.diags) : lastOp.diags[i].severity = "warning"
            /\ Len(lastOp.diags) = Cardinality(failed)
            /\ envState = Nil
            /\ \A i \in 1..Len(lastOp.reqs) : lastOp.reqs[i].method = "PATCH"

DeleteOnlyWarnsWitness ==
    /\ lastOp.op = "EnvironmentDelete"
    /\ lastOp.outcome[1].settings.kind = "api"
    /\ lastOp.outcome[1].restrictions.kind = "transport"
    /\ lastOp.outcome[1].organization.kind = "api"
    /\ Len(lastOp.reqs) = 3
    /\ Len(lastOp.diags) = 3
    /\ envState = Nil

DeleteUnregisteredWitness ==
    /\ lastOp.op = "EnvironmentDelete"
    /\ lastOp.reqs = << >>
    /\ Len(lastOp.diags) = 3

----------------------------------------------------------------------------
(* C7: ImportState accepts an import id exactly when it is                 *)
(* <application_id>/<environment> with a non-empty application id free of  *)
(* slashes and environment development or production; the state then holds *)
(* the whole id as id and the two parts as application_id and environment. *)
(* Any other id gives an error diagnostic and no state.                    *)
SlashFree(x) == \A i \in 1..Len(x) : x[i] # Slash

WellFormedImportID(id, a, e) ==
    a # << >> /\ SlashFree(a) /\ e \in {Development, Production} /\ id = Join(a, e)

Prefixes(x) == {SubSeq(x, 1, k) : k \in 0..Len(x)}

ImportAcceptsExactly ==
    lastOp.op = "EnvironmentImportState" =>
        LET id == lastOp.appID
        IN  IF \E a \in Prefixes(id), e \in EnvNames : WellFormedImportID(id, a, e)
            THEN /\ ~HasError(lastOp.diags)
                 /\ envState # Nil
                 /\ envState[1].ID = StringValue(id)
                 /\ \E a \in Prefixes(id), e \in EnvNames :
                        /\ WellFormedImportID(id, a, e)
                        /\ envState[1].ApplicationID = StringValue(a)
                        /\ envState[1].Environment = StringValue(e)
            ELSE HasError(lastOp.diags) /\ envState = Nil

ImportAcceptsExactlyWitness ==
    /\ lastOp.op = "EnvironmentImportState"
    /\ lastOp.appID = Join(App2, Production)
    /\ envState # Nil
    /\ envState[1].ApplicationID = StringValue(App2)
    /\ envState[1].Environment = StringValue(Production)

ImportRejectsExtraSegmentWitness ==
    /\ lastOp.op = "EnvironmentImportState"
    /\ lastOp.appID = Join(Join(<<"a">>, App1), Development)
    /\ HasError(lastOp.diags)

----------------------------------------------------------------------------
(* C8: after a Create or Update that succeeded with a plan whose           *)
(* organization_settings sets enabled = true and max_allowed_memberships   *)
(* = 10, the state holds these two values, and the next plan of the same   *)
(* configuration proposes the state's values for both (no drift).          *)

\* The value the host plans for an Optional+Computed attribute: the
\* configured one, or the state's when the configuration leaves it unset.
ProposedValue(config, prior) == IF IsNull(config) THEN prior ELSE config

OrgSettingsRoundTrip ==
    (/\ lastOp.op \in {"EnvironmentCreate", "EnvironmentUpdate"}
     /\ ~HasError(lastOp.diags)
     /\ IsSet(lastOp.plan[1].OrganizationSettings)
     /\ lastOp.plan[1].OrganizationSettings.v.Enabled = BoolValue(TRUE)
     /\ lastOp.plan[1].OrganizationSettings.v.MaxAllowedMemberships = Int64Value(10))
    => /\ envState # Nil
       /\ IsSet(envState[1].OrganizationSettings)
       /\ LET config == lastOp.plan[1].OrganizationSettings.v
              saved == envState[1].OrganizationSettings.v
          IN  /\ saved.Enabled = BoolValue(TRUE)
              /\ saved.MaxAllowedMemberships = Int64Value(10)
              /\ ProposedValue(config.Enabled, saved.Enabled) = saved.Enabled
              /\ ProposedValue(config.MaxAllowedMemberships, saved.MaxAllowedMemberships)
                    = saved.MaxAllowedMemberships

OrgSettingsRoundTripWitness ==
    /\ lastOp.op = "EnvironmentUpdate"
    /\ ~HasError(lastOp.diags)
    /\ lastOp.plan[1].OrganizationSettings = OrgEnabledMax
    /\ Len(lastOp.reqs) = 1
    /\ envState[1].OrganizationSettings.v.MaxAllowedMemberships = Int64Value(10)

----------------------------------------------------------------------------
(* C9: a Read of a clerk_environment sends no request and leaves the state *)
(* exactly as it was before the Read.                                      *)
ReadKeepsState ==
    [][lastOp'.op = "EnvironmentRead" =>
          /\ envState' = envState
          /\ lastOp'.reqs = << >>
          /\ lastOp'.diags = << >>]_vars

ReadKeepsStateWitness ==
    /\ lastOp.op = "EnvironmentRead"
    /\ envState # Nil
    /\ IsSet(envState[1].OrganizationSettings)
    /\ envState[1].ID = StringValue(Join(App1, Development))


----------------------------------------------------------------------------
(* SpecRegistry: goroutines call RegisterBackendClient and GetBackendConfig *)
(* on one ClerkClient concurrently, one statement at a time.               *)

RegistryPairs == {<<App1, Development>>, <<App2, Production>>}

\* sync.RWMutex: Lock waits until no goroutine holds the mutex, RLock until
\* no writer holds it.
LockEnabled(m) == m.writer = Nil /\ m.readers = {}

RLockEnabled_Always(m) == TRUE

RLockEnabled(m) == m.writer = Nil

registryOnly == <<lastOp, envState, appState, orgState, provider, orgData, appData>>

Enter(g, op, appID, env, secretKey, at) ==
    /\ pc[g] = "idle"
    /\ frame' = [frame EXCEPT ![g] = [IdleFrame EXCEPT !.op = op, !.appID = appID,
                                                       !.env = env, !.secretKey = secretKey]]
    /\ pc' = [pc EXCEPT ![g] = at]
    /\ UNCHANGED <<backendClients, registered, mu, registryOnly>>

RegisterCall(g) ==
    \E p \in RegistryPairs, secretKey \in SecretKeys :
        Enter(g, "RegisterBackendClient", p[1], p[2], secretKey, "Lock")

\* c.mu.Lock()
RegisterLock(g) ==
    /\ pc[g] = "Lock"
    /\ LockEnabled(mu)
    /\ mu' = [mu EXCEPT !.writer = Some(g)]
    /\ pc' = [pc EXCEPT ![g] = "NewConfig"]
    /\ UNCHANGED <<backendClients, registered, frame, registryOnly>>

\* config := &clerk.ClientConfig{}
RegisterNewConfig(g) ==
    /\ pc[g] = "NewConfig"
    /\ frame' = [frame EXCEPT ![g].config = Some([Key |-> Nil, URL |-> Nil])]
    /\ pc' = [pc EXCEPT ![g] = "SetKey"]
    /\ UNCHANGED <<backendClients, registered, mu, registryOnly>>

\* config.Key = clerk.String(secretKey)
RegisterSetKey(g) ==
    /\ pc[g] = "SetKey"
    /\ frame' = [frame EXCEPT ![g].config = Some([@[1] EXCEPT !.Key = Some(frame[g].secretKey)])]
    /\ pc' = [pc EXCEPT ![g] = "Store"]
    /\ UNCHANGED <<backendClients, registered, mu, registryOnly>>

\* c.backendClients[key] = config
RegisterStore(g) ==
    /\ pc[g] = "Store"
    /\ backendClients' =
          [k \in DOMAIN backendClients \cup {backendClientKey(frame[g].appID, frame[g].env)} |->
              IF k = backendClientKey(frame[g].appID, frame[g].env)
              THEN frame[g].config[1] ELSE backendClients[k]]
    /\ registered' = [registered EXCEPT ![<<frame[g].appID, frame[g].env>>] =
                         [last |-> Some(frame[g].secretKey),
                          ever |-> @.ever \cup {frame[g].secretKey}]]
    /\ pc' = [pc EXCEPT ![g] = "Unlock"]
    /\ UNCHANGED <<mu, frame, registryOnly>>

\* defer c.mu.Unlock()
RegisterUnlock(g) ==
    /\ pc[g] = "Unlock"
    /\ mu' = [mu EXCEPT !.writer = Nil]
    /\ pc' = [pc EXCEPT ![g] = "idle"]
    /\ UNCHANGED <<backendClients, registered, frame, registryOnly>>

GetCall(g) ==
    \E p \in RegistryPairs : Enter(g, "GetBackendConfig", p[1], p[2], "", "RLock")

\* c.mu.RLock()
GetRLock(g) ==
    /\ pc[g] = "RLock"
    /\ RLockEnabled(mu)
    /\ mu' = [mu EXCEPT !.readers = @ \cup {g}]
    /\ pc' = [pc EXCEPT ![g] = "Load"]
    /\ UNCHANGED <<backendClients, registered, frame, registryOnly>>

\* What a map read that races with a writer may return: nothing, any entry,
\* or a configuration some writer has not finished.
RacyLoads ==
    {GetBackendConfig(<< >>, << >>, << >>)}
    \cup {[config |-> Some(backendClients[k]), err |-> NoError] : k \in DOMAIN backendClients}
    \cup {[config |-> Some([Key |-> Nil, URL |-> Nil]), err |-> NoError]}
    \cup {[config |-> frame[w].config, err |-> NoError] :
             w \in {h \in Goroutines : frame[h].config # Nil}}

\* config, ok := c.backendClients[key] and the return values. The read is
\* defined only while no writer is between Lock and Unlock.
GetLoad(g) ==
    /\ pc[g] = "Load"
    /\ \E r \in IF \E w \in Goroutines : pc[w] \in {"NewConfig", "SetKey", "Store", "Unlock"}
                THEN RacyLoads
                ELSE {GetBackendConfig(backendClients, frame[g].appID, frame[g].env)} :
          frame' = [frame EXCEPT ![g].result = r.config, ![g].err = r.err]
    /\ pc' = [pc EXCEPT ![g] = "RUnlock"]
    /\ UNCHANGED <<backendClients, registered, mu, registryOnly>>

\* defer c.mu.RUnlock()
GetRUnlock(g) ==
    /\ pc[g] = "RUnlock"
    /\ mu' = [mu EXCEPT !.readers = @ \ {g}]
    /\ pc' = [pc EXCEPT ![g] = "idle"]
    /\ UNCHANGED <<backendClients, registered, frame, registryOnly>>

NextRegistry ==
    \E g \in Goroutines :
        \/ RegisterCall(g)
        \/ RegisterLock(g)
        \/ RegisterNewConfig(g)
        \/ RegisterSetKey(g)
        \/ RegisterStore(g)
        \/ RegisterUnlock(g)
        \/ GetCall(g)
        \/ GetRLock(g)
        \/ GetLoad(g)
        \/ GetRUnlock(g)

SpecRegistry == Init /\ [][NextRegistry]_vars


----------------------------------------------------------------------------
(* The clerk_application and clerk_organization resources. Their adapters  *)
(* are described by the provider's documentation; Read and Delete follow   *)
(* that description and call the client operations above.                  *)

ApplicationResourceModel(id, name, deletionProtection, devInstanceID, prodInstanceID) ==
    [ID |-> id, Name |-> name, DeletionProtection |-> deletionProtection,
     DevInstanceID |-> devInstanceID, ProdInstanceID |-> prodInstanceID]

OrganizationResourceModel(id, appID, env, orgID, name) ==
    [ID |-> id, ApplicationID |-> appID, Environment |-> env, OrganizationID |-> orgID,
     Name |-> name]

\* The instance id of the first instance of the given type, null when the
\* application has none.
InstanceIDOf(app, envType) ==
    IF \E i \in 1..Len(app.Instances) : app.Instances[i].EnvironmentType = envType
    THEN StringValue(app.Instances[
             CHOOSE i \in 1..Len(app.Instances) :
                 /\ app.Instances[i].EnvironmentType = envType
                 /\ \A j \in 1..(i - 1) : app.Instances[j].EnvironmentType # envType].InstanceID)
    ELSE StringNull

IsNotFound(err) == err.kind \in {"PlatformAPIError", "APIErrorResponse"} /\ err.status = 404

\* Read of an application: a 404 drops the resource from the state, any
\* other failure is an error that keeps it; name and deletion_protection
\* are not returned by the API and stay as they are.
ApplicationRead_ErrorOnNotFound(apiKey, state, outcome) ==
    LET r == GetApplication(apiKey, state.ID.v, TRUE, outcome)
    IN  IF r.err # NoError
        THEN HandlerResult(Some(state), <<ErrorDiag("Error reading application")>>, r.reqs)
        ELSE HandlerResult(
                 Some([state EXCEPT !.DevInstanceID = InstanceIDOf(r.resp[1], Development),
                                    !.ProdInstanceID = InstanceIDOf(r.resp[1], Production)]),
                 << >>, r.reqs)

ApplicationRead(apiKey, state, outcome) ==
    LET r == GetApplication(apiKey, state.ID.v, TRUE, outcome)
    IN  IF IsNotFound(r.err)
        THEN HandlerResult(Nil, << >>, r.reqs)
        ELSE IF r.err # NoError
        THEN HandlerResult(Some(state), <<ErrorDiag("Error reading application")>>, r.reqs)
        ELSE HandlerResult(
                 Some([state EXCEPT !.DevInstanceID = InstanceIDOf(r.resp[1], Development),
                                    !.ProdInstanceID = InstanceIDOf(r.resp[1], Production)]),
                 << >>, r.reqs)

\* Delete of an application: refused before any request while
\* deletion_protection is true.
ApplicationDelete_Unprotected(apiKey, state, outcome) ==
    LET r == DeleteApplication(apiKey, state.ID.v, outcome)
    IN  IF r.err # NoError
        THEN HandlerResult(Some(state), <<ErrorDiag("Error deleting application")>>, r.reqs)
        ELSE HandlerResult(Nil, << >>, r.reqs)

ApplicationDelete(apiKey, state, outcome) ==
    IF state.DeletionProtection.v
    THEN HandlerResult(Some(state), <<ErrorDiag("Deletion Protection Enabled")>>, << >>)
    ELSE LET r == DeleteApplication(apiKey, state.ID.v, outcome)
         IN  IF r.err # NoError
             THEN HandlerResult(Some(state), <<ErrorDiag("Error deleting application")>>, r.reqs)
             ELSE HandlerResult(Nil, << >>, r.reqs)

\* Read of an organization, with the same treatment of a 404.
OrganizationRead(m, state, outcome) ==
    LET r == GetOrganization(m, state.ApplicationID.v, state.Environment.v,
                             state.OrganizationID.v, outcome)
    IN  IF IsNotFound(r.err)
        THEN HandlerResult(Nil, << >>, r.reqs)
        ELSE IF r.err # NoError
        THEN HandlerResult(Some(state), <<ErrorDiag("Error reading organization")>>, r.reqs)
        ELSE HandlerResult(Some([state EXCEPT !.Name = StringValue(r.resp[1].Name)]),
                           << >>, r.reqs)


\* strings.SplitN(s, sep, 3): s cut at its first two sep.
SplitN3(s, sep) ==
    LET first == SplitN2(s, sep)
    IN  IF Len(first) = 1 THEN first ELSE <<first[1]>> \o SplitN2(first[2], sep)

\* Import of an organization by {application_id}/{environment}/{organization_id}:
\* the three parts become application_id, environment and the organization's
\* id, which is also the resource's id.
OrganizationImportState_AnyEnvironment(id) ==
    LET parts == SplitN3(id, Slash)
    IN  IF Len(parts) # 3 \/ parts[1] = << >> \/ parts[2] = << >> \/ parts[3] = << >>
        THEN HandlerResult(Nil, <<ErrorDiag("Invalid Import ID")>>, << >>)
        ELSE HandlerResult(
                 Some(OrganizationResourceModel(StringValue(parts[3]), StringValue(parts[1]),
                                                StringValue(parts[2]), StringValue(parts[3]),
                                                StringNull)),
                 << >>, << >>)

OrganizationImportState(id) ==
    LET parts == SplitN3(id, Slash)
    IN  IF Len(parts) # 3 \/ parts[1] = << >> \/ parts[2] = << >> \/ parts[3] = << >>
        THEN HandlerResult(Nil, <<ErrorDiag("Invalid Import ID")>>, << >>)
        ELSE IF parts[2] # Development /\ parts[2] # Production
        THEN HandlerResult(Nil, <<ErrorDiag("Invalid Environment")>>, << >>)
        ELSE HandlerResult(
                 Some(OrganizationResourceModel(StringValue(parts[3]), StringValue(parts[1]),
                                                StringValue(parts[2]), StringValue(parts[3]),
                                                StringNull)),
                 << >>, << >>)


----------------------------------------------------------------------------
(* SpecApplication: the host refreshes and destroys resources that an      *)
(* earlier apply left in the state.                                        *)

ManagedApplications ==
    {ApplicationResourceModel(StringValue(id), StringValue("test-app"), BoolValue(dp),
                              StringValue("ins_dev"), StringNull) :
        id \in AppIDs, dp \in BOOLEAN}

ManagedOrganizations ==
    {OrganizationResourceModel(StringValue(OrgID),
                               StringValue(a), StringValue(Development),
                               StringValue(OrgID), StringValue("Test Org")) :
        a \in AppIDs}

InitApplication ==
    /\ backendClients = RegisterBackendClient(NewClerkClient, App1, Development, "sk_test_dev")
    /\ registered = [p \in Pairs |->
                        IF p = <<App1, Development>>
                        THEN [last |-> Some("sk_test_dev"), ever |-> {"sk_test_dev"}]
                        ELSE NeverRegistered]
    /\ lastOp = NoOp
    /\ envState = Nil
    /\ appState \in {Some(a) : a \in ManagedApplications}
    /\ orgState \in {Some(o) : o \in ManagedOrganizations}
    /\ InitGoroutines
    /\ InitProvider

DoApplicationRead ==
    /\ appState # Nil
    /\ \E o \in PlatformOutcomes :
        /\ appState' = ApplicationRead(PlatformKey, appState[1], o).state
        /\ lastOp' = HandlerOp("ApplicationRead", appState[1].ID.v, << >>, Nil, Some(o),
                               ApplicationRead(PlatformKey, appState[1], o))
        /\ UNCHANGED <<backendClients, registered, envState, orgState, mu, pc, frame, provider, orgData, appData>>

DoApplicationDelete ==
    /\ appState # Nil
    /\ \E o \in PlatformOutcomes :
        /\ appState' = ApplicationDelete(PlatformKey, appState[1], o).state
        /\ lastOp' = HandlerOp("ApplicationDelete", appState[1].ID.v, << >>, Nil, Some(o),
                               ApplicationDelete(PlatformKey, appState[1], o))
        /\ UNCHANGED <<backendClients, registered, envState, orgState, mu, pc, frame, provider, orgData, appData>>

DoOrganizationRead ==
    /\ orgState # Nil
    /\ \E o \in BackendOutcomes({Organization, [Organization EXCEPT !.Name = "Updated Org"]}) :
        /\ orgState' = OrganizationRead(backendClients, orgState[1], o).state
        /\ lastOp' = HandlerOp("OrganizationRead", orgState[1].ApplicationID.v,
                               orgState[1].Environment.v, Nil, Some(o),
                               OrganizationRead(backendClients, orgState[1], o))
        /\ UNCHANGED <<backendClients, registered, envState, appState, mu, pc, frame, provider, orgData, appData>>

Org1 == <<"o","r","g","_","1">>

Join3(a, e, o) == Join(Join(a, e), o)

OrganizationImportIDs ==
    {Join3(a, e, o) : a \in {App1, << >>},
                      e \in {Development, Production, Staging, << >>},
                      o \in {Org1, << >>}}
    \cup {Join(App1, Development), App1, << >>, Join(Join3(App1, Development, Org1), <<"x">>)}

\* The host imports into an address that holds no resource; the import id
\* is kept in lastOp.appID.
DoOrganizationImportState ==
    /\ orgState = Nil
    /\ \E id \in OrganizationImportIDs :
        \E r \in {OrganizationImportState(id)} :
            /\ orgState' = r.state
            /\ lastOp' = HandlerOp("OrganizationImportState", id, << >>, Nil, Nil, r)
            /\ UNCHANGED <<backendClients, registered, envState, appState, mu, pc, frame,
                           provider, orgData, appData>>

NextApplication ==
    \/ DoApplicationRead
    \/ DoApplicationDelete
    \/ DoOrganizationRead
    \/ DoOrganizationImportState

SpecApplication == InitApplication /\ [][NextApplication]_vars

----------------------------------------------------------------------------
(* C4: a Delete of an application whose deletion_protection is true adds   *)
(* an error, sends no request and keeps the application in the state; with *)
(* deletion_protection false it sends the DELETE request for the           *)
(* application.                                                            *)
DeletionProtectionBlocks ==
    [][(lastOp'.op = "ApplicationDelete" /\ appState # Nil) =>
          IF appState[1].DeletionProtection = BoolValue(TRUE)
          THEN /\ HasError(lastOp'.diags)
               /\ lastOp'.reqs = << >>
               /\ appState' = appState
          ELSE /\ Len(lastOp'.reqs) = 1
               /\ lastOp'.reqs[1].method = "DELETE"
               /\ lastOp'.reqs[1].path =
                     <<platformAPIBaseURL, "/platform/applications/">> \o appState[1].ID.v]_vars

DeletionProtectionBlocksWitness ==
    /\ lastOp.op = "ApplicationDelete"
    /\ appState # Nil
    /\ appState[1].DeletionProtection = BoolValue(TRUE)
    /\ lastOp.outcome[1].status = 200
    /\ lastOp.outcome[1].body = BodyDeletedTrue
    /\ lastOp.reqs = << >>
    /\ HasError(lastOp.diags)

DeletionPermittedWitness ==
    /\ lastOp.op = "ApplicationDelete"
    /\ appState = Nil
    /\ Len(lastOp.reqs) = 1

----------------------------------------------------------------------------
(* C5: a Read that is answered with status 404 removes the resource from   *)
(* the state and adds no error; a Read answered with any other API error   *)
(* adds an error and leaves the state as it was.                           *)
AnsweredWith(op, statuses) ==
    /\ op.reqs # << >>
    /\ op.outcome[1].kind \in {"response", "api"}
    /\ op.outcome[1].status \in statuses

ErrorStatuses == {st \in Statuses \cup {422} : st < 200 \/ st > 299}

ReadTreatsNotFound(op, before, after) ==
    /\ AnsweredWith(op, {404}) => after = Nil /\ ~HasError(op.diags)
    /\ AnsweredWith(op, ErrorStatuses \ {404}) => HasError(op.diags) /\ after = before

ReadRemovesOnNotFound ==
    [][/\ lastOp'.op = "ApplicationRead" => ReadTreatsNotFound(lastOp', appState, appState')
       /\ lastOp'.op = "OrganizationRead" => ReadTreatsNotFound(lastOp', orgState, orgState')]_vars

ReadRemovesOnNotFoundWitness ==
    /\ lastOp.op = "ApplicationRead"
    /\ AnsweredWith(lastOp, {404})
    /\ lastOp.outcome[1].body = BodyErrorObject
    /\ appState = Nil
    /\ orgState # Nil
    /\ lastOp.diags = << >>

ReadKeepsOnOtherErrorWitness ==
    /\ lastOp.op = "OrganizationRead"
    /\ AnsweredWith(lastOp, {422})
    /\ orgState # Nil
    /\ HasError(lastOp.diags)

----------------------------------------------------------------------------
(* C3: whatever the interleaving, a GetBackendConfig returns the           *)
(* not-registered error or a configuration whose key is set to a secret    *)
(* key that a RegisterBackendClient stored for the same pair; and while a  *)
(* writer is between Lock and Unlock no other goroutine is inside the      *)
(* registry's critical section.                                            *)
WriterSection == {"NewConfig", "SetKey", "Store", "Unlock"}
ReaderSection == {"Load", "RUnlock"}

CompleteRead(g) ==
    IF frame[g].err # NoError
    THEN frame[g].result = Nil /\ frame[g].err = Err("no backend client registered")
    ELSE /\ frame[g].result # Nil
         /\ frame[g].result[1].Key # Nil
         /\ frame[g].result[1].Key[1] \in registered[<<frame[g].appID, frame[g].env>>].ever

ReadersSeeCompleteEntries ==
    /\ \A g \in Goroutines :
          (frame[g].op = "GetBackendConfig" /\ pc[g] \in {"RUnlock", "idle"}) => CompleteRead(g)
    /\ \A w \in Goroutines :
          pc[w] \in WriterSection =>
              \A g \in Goroutines \ {w} : pc[g] \notin WriterSection \cup ReaderSection

ReadersSeeCompleteEntriesWitness ==
    \E g, w, h \in Goroutines :
        /\ frame[g].op = "GetBackendConfig" /\ pc[g] = "idle"
        /\ frame[g].result # Nil
        /\ Cardinality(registered[<<frame[g].appID, frame[g].env>>].ever) = 2
        /\ pc[w] = "SetKey"
        /\ frame[w].appID = frame[g].appID /\ frame[w].env = frame[g].env
        /\ pc[h] = "RLock"


----------------------------------------------------------------------------
(* SpecClient: one ClerkClient serving both endpoint families, the         *)
(* workspace-level calls and the per-instance calls, one call at a time.   *)

\* Answers of the Platform API, one of each kind that a call tells apart.
ClientPlatformOutcomes ==
    {[kind |-> "response", status |-> 200, body |-> BodyApplication],
     [kind |-> "response", status |-> 200, body |-> BodyDeletedTrue],
     [kind |-> "response", status |-> 500, body |-> BodyErrorObject],
     [kind |-> "transport", status |-> 0, body |-> ""]}

ClientCreateApplication ==
    \E o \in ClientPlatformOutcomes :
        /\ lastOp' = PlatformOp("CreateApplication", << >>, o,
                                CreateApplication(PlatformKey, CreateRequest, o))
        /\ UNCHANGED others

ClientGetApplication ==
    \E id \in PlatformAppIDs, flag \in BOOLEAN, o \in ClientPlatformOutcomes :
        /\ lastOp' = [PlatformOp("GetApplication", id, o, GetApplication(PlatformKey, id, flag, o))
                          EXCEPT !.args = Some(flag)]
        /\ UNCHANGED others

ClientUpdateApplication ==
    \E id \in PlatformAppIDs, o \in ClientPlatformOutcomes :
        /\ lastOp' = PlatformOp("UpdateApplication", id, o,
                                UpdateApplication(PlatformKey, id, UpdateRequest, o))
        /\ UNCHANGED others

ClientDeleteApplication ==
    \E id \in PlatformAppIDs, o \in ClientPlatformOutcomes :
        /\ lastOp' = PlatformOp("DeleteApplication", id, o, DeleteApplication(PlatformKey, id, o))
        /\ UNCHANGED others

ClientListApplications ==
    \E flag \in BOOLEAN, o \in ClientPlatformOutcomes :
        /\ lastOp' = [PlatformOp("ListApplications", << >>, o, ListApplications(PlatformKey, flag, o))
                          EXCEPT !.args = Some(flag)]
        /\ UNCHANGED others

NextClient ==
    \/ Next
    \/ ClientCreateApplication
    \/ ClientGetApplication
    \/ ClientUpdateApplication
    \/ ClientDeleteApplication
    \/ ClientListApplications

SpecClient == Init /\ [][NextClient]_vars

(* C11: every request of a Platform API call carries the platform API key  *)
(* as its bearer token; every request of a per-instance call for a pair    *)
(* carries the secret key registered for that pair, which is neither       *)
(* the platform key nor absent, whatever keys other pairs have.            *)
KeyRouting ==
    /\ lastOp.op \in PlatformOps =>
          \A i \in 1..Len(lastOp.reqs) :
              /\ lastOp.reqs[i].api = "platform"
              /\ lastOp.reqs[i].auth = Some(PlatformKey)
    /\ lastOp.op \in PerInstanceOps =>
          \A i \in 1..Len(lastOp.reqs) :
              /\ lastOp.reqs[i].api = "backend"
              /\ lastOp.reqs[i].auth # Nil
              /\ lastOp.reqs[i].auth = registered[<<lastOp.appID, lastOp.env>>].last
              /\ lastOp.reqs[i].auth # Some(PlatformKey)

\* A per-instance request was sent while another pair holds a different key.
KeyRoutingWitness ==
    /\ lastOp.op \in PerInstanceOps
    /\ lastOp.reqs # << >>
    /\ \E q \in Pairs :
          /\ q # <<lastOp.appID, lastOp.env>>
          /\ registered[q].last # Nil
          /\ registered[q].last # registered[<<lastOp.appID, lastOp.env>>].last

PlatformKeyRoutingWitness ==
    /\ lastOp.op \in PlatformOps
    /\ lastOp.reqs # << >>
    /\ backendClients # NewClerkClient


----------------------------------------------------------------------------
(* provider.go: ClerkProvider.Configure, and the Configure methods of the  *)
(* resources and data sources that receive what it hands out.              *)

\* The ClerkClient struct NewClerkClient(platformAPIKey) allocates; its
\* registry is the variable backendClients.
ClerkClient(platformAPIKey) ==
    [PlatformAPIKey |-> platformAPIKey, backendClients |-> NewClerkClient]

\* os.Getenv("CLERK_PLATFORM_API_KEY") over the process environment: the
\* variable's value, "" when it is not set.
Getenv(environ) == environ

ResolvePlatformAPIKey_EnvFirst(config, environ) ==
    IF Getenv(environ) # "" THEN Getenv(environ) ELSE config.v

ResolvePlatformAPIKey(config, environ) ==
    IF ~IsNull(config) /\ ~IsUnknown(config) THEN config.v ELSE Getenv(environ)

ProviderConfigure(p, config, environ) ==
    LET platformAPIKey == ResolvePlatformAPIKey(config, environ)
        called == [p EXCEPT !.configured = TRUE, !.config = Some(config), !.environ = environ]
    IN  IF platformAPIKey = ""
        THEN [called EXCEPT !.diags = <<ErrorDiag("Missing Platform API Key")>>]
        ELSE LET heap == Append(p.heap, ClerkClient(platformAPIKey))
                 clerkClient == Len(heap)
             IN  [called EXCEPT !.heap = heap,
                                !.DataSourceData = Some(clerkClient),
                                !.ResourceData = Some(clerkClient)]

\* EnvironmentResource.Configure / OrganizationDataSource.Configure: the
\* client field after the call, given the field before and req.ProviderData.
ResourceConfigure(client, providerData) ==
    IF providerData = Nil THEN client ELSE providerData


----------------------------------------------------------------------------
(* datasources/organization.go: the clerk_organization data source *)

\* OrganizationDataSourceModel as the configuration gives it: the computed
\* attributes are null until Read sets them.
OrganizationDataSourceModel(appID, env, id, slug) ==
    [ApplicationID |-> appID, Environment |-> env, ID |-> id, Slug |-> slug,
     Name |-> StringNull, MaxAllowedMemberships |-> Int64Null,
     AdminDeleteEnabled |-> BoolNull, CreatedAt |-> Int64Null]

\* stringvalidator.OneOf: a null or unknown value is not checked.
OneOf(value, allowed) ==
    IF IsNull(value) \/ IsUnknown(value) \/ value.v \in allowed
    THEN << >>
    ELSE <<ErrorDiag("Invalid Attribute Value Match")>>

\* stringvalidator.ExactlyOneOf on an attribute and the other attribute its
\* path expressions match: the check waits while either is unknown, and
\* counts the attributes that are not null.
ExactlyOneOf(value, other) ==
    IF IsUnknown(value) \/ IsUnknown(other)
    THEN << >>
    ELSE LET count == (IF IsNull(value) THEN 0 ELSE 1) + (IF IsNull(other) THEN 0 ELSE 1)
         IN  IF count = 1 THEN << >> ELSE <<ErrorDiag("Invalid Attribute Combination")>>

\* The validators of OrganizationDataSource.Schema.
OrganizationDataSourceValidate(data) ==
    OneOf(data.Environment, EnvNames) \o ExactlyOneOf(data.ID, data.Slug)

lookupKey_IDOnly(data) == data.ID.v

lookupKey(data) == IF data.ID.v = "" THEN data.Slug.v ELSE data.ID.v

OrganizationDataSourceRead(m, data, outcome) ==
    The({IF r.err # NoError
         THEN HandlerResult(Nil, <<ErrorDiag("Error reading Clerk organization")>>, r.reqs)
         ELSE HandlerResult(
                  Some([data EXCEPT !.ID = StringValue(r.resp[1].ID),
                                    !.Name = StringValue(r.resp[1].Name),
                                    !.Slug = StringValue(r.resp[1].Slug),
                                    !.MaxAllowedMemberships = Int64Value(r.resp[1].MaxAllowedMemberships),
                                    !.AdminDeleteEnabled = BoolValue(r.resp[1].AdminDeleteEnabled),
                                    !.CreatedAt = Int64Value(r.resp[1].CreatedAt)]),
                  << >>, r.reqs) :
         r \in {GetOrganization(m, data.ApplicationID.v, data.Environment.v,
                                lookupKey(data), outcome)}})


----------------------------------------------------------------------------
(* datasources/application.go: the clerk_application data source *)

\* ApplicationDataSourceModel as the configuration gives it: id is required,
\* the six computed attributes are null until Read sets them.
ApplicationDataSourceModel(id) ==
    [ID |-> id, DevInstanceID |-> StringNull, DevSecretKey |-> StringNull,
     DevPublishableKey |-> StringNull, ProdInstanceID |-> StringNull,
     ProdSecretKey |-> StringNull, ProdPublishableKey |-> StringNull]

SetInstance_AlwaysSecret(data, inst) ==
    CASE inst.EnvironmentType = Development ->
            [data EXCEPT !.DevInstanceID = StringValue(inst.InstanceID),
                         !.DevPublishableKey = StringValue(inst.PublishableKey),
                         !.DevSecretKey = StringValue(inst.SecretKey)]
      [] inst.EnvironmentType = Production ->
            [data EXCEPT !.ProdInstanceID = StringValue(inst.InstanceID),
                         !.ProdPublishableKey = StringValue(inst.PublishableKey),
                         !.ProdSecretKey = StringValue(inst.SecretKey)]
      [] OTHER -> data

\* Read, the body of its loop: the switch on inst.EnvironmentType.
SetInstance(data, inst) ==
    CASE inst.EnvironmentType = Development ->
            [data EXCEPT !.DevInstanceID = StringValue(inst.InstanceID),
                         !.DevPublishableKey = StringValue(inst.PublishableKey),
                         !.DevSecretKey = IF inst.SecretKey # ""
                                          THEN StringValue(inst.SecretKey) ELSE @]
      [] inst.EnvironmentType = Production ->
            [data EXCEPT !.ProdInstanceID = StringValue(inst.InstanceID),
                         !.ProdPublishableKey = StringValue(inst.PublishableKey),
                         !.ProdSecretKey = IF inst.SecretKey # ""
                                           THEN StringValue(inst.SecretKey) ELSE @]
      [] OTHER -> data

\* Read, its loop over application.Instances.
RECURSIVE SetInstances(_, _)
SetInstances(data, instances) ==
    IF instances = << >>
    THEN data
    ELSE SetInstances(SetInstance(data, Head(instances)), Tail(instances))

ApplicationDataSourceRead(apiKey, data, outcome) ==
    The({IF r.err # NoError
         THEN HandlerResult(Nil, <<ErrorDiag("Error reading Clerk application")>>, r.reqs)
         ELSE HandlerResult(Some(SetInstances(data, r.resp[1].Instances)), << >>, r.reqs) :
         r \in {GetApplication(apiKey, data.ID.v, TRUE, outcome)}})


----------------------------------------------------------------------------
(* SpecProvider: the host configures the provider once, hands its response *)
(* to a resource and a data source, a resource registers the secret keys   *)
(* it learns, and the host validates and reads the clerk_organization data *)
(* source.                                                                 *)

ConfigKey == "config-key"
EnvKey == "env-key"

\* platform_api_key in the provider block, and CLERK_PLATFORM_API_KEY.
ProviderConfigs == {StringNull, StringUnknown, StringValue(""), StringValue(ConfigKey)}
Environs == {"", EnvKey}

OrgSlug == "acme-corp"

OrganizationAnswers ==
    {[ID |-> OrgID, Name |-> "Test Org", Slug |-> OrgSlug, MaxAllowedMemberships |-> n,
      AdminDeleteEnabled |-> b, CreatedAt |-> 1700000000] :
        n \in {5}, b \in BOOLEAN}

\* Configurations of the data source: none, one or both of id and slug,
\* not yet known, or the empty string.
OrganizationDataConfigs ==
    {OrganizationDataSourceModel(StringValue(a), StringValue(e), id, slug) :
        a \in AppIDs, e \in {Development, Staging},
        id \in {StringNull, StringUnknown, StringValue(""), StringValue(OrgID)},
        slug \in {StringNull, StringValue(OrgSlug)}}

AllKnown(data) ==
    ~IsUnknown(data.ApplicationID) /\ ~IsUnknown(data.Environment) /\
    ~IsUnknown(data.ID) /\ ~IsUnknown(data.Slug)

providerOnly == <<backendClients, registered, envState, appState, orgState, mu, pc, frame, orgData, appData>>

DoProviderConfigure ==
    /\ ~provider.configured
    /\ \E config \in ProviderConfigs, environ \in Environs :
          /\ provider' = ProviderConfigure(provider, config, environ)
          /\ lastOp' = [OpRecord("ProviderConfigure", << >>, << >>, NoCall(NoError))
                            EXCEPT !.diags = ProviderConfigure(provider, config, environ).diags]
    /\ UNCHANGED providerOnly

DoResourceConfigure ==
    /\ provider' = [provider EXCEPT
                        !.resourceClient = ResourceConfigure(@, provider.ResourceData)]
    /\ lastOp' = OpRecord("ResourceConfigure", << >>, << >>, NoCall(NoError))
    /\ UNCHANGED providerOnly

DoDataSourceConfigure ==
    /\ provider' = [provider EXCEPT
                        !.dataSourceClient = ResourceConfigure(@, provider.DataSourceData)]
    /\ lastOp' = OpRecord("DataSourceConfigure", << >>, << >>, NoCall(NoError))
    /\ UNCHANGED providerOnly

\* A resource registers the secret key of an instance it has read.
DoRegisterInstanceKey ==
    /\ provider.resourceClient # Nil
    /\ \E i \in 1..Len(ApplicationWithSecrets.Instances) :
          LET inst == ApplicationWithSecrets.Instances[i]
              appID == ApplicationWithSecrets.ApplicationID
          IN  /\ backendClients' = RegisterBackendClient(backendClients, appID,
                                                         inst.EnvironmentType, inst.SecretKey)
              /\ registered' = [registered EXCEPT ![<<appID, inst.EnvironmentType>>] =
                                   [last |-> Some(inst.SecretKey),
                                    ever |-> @.ever \cup {inst.SecretKey}]]
              /\ lastOp' = OpRecord("RegisterBackendClient", appID, inst.EnvironmentType,
                                    NoCall(NoError))
    /\ UNCHANGED <<envState, appState, orgState, mu, pc, frame, provider, orgData, appData>>

DoOrganizationDataValidate ==
    \E data \in OrganizationDataConfigs :
        /\ lastOp' = [OpRecord("OrganizationDataValidate", data.ApplicationID.v,
                               data.Environment.v, NoCall(NoError))
                          EXCEPT !.diags = OrganizationDataSourceValidate(data),
                                 !.plan = Some(data)]
        /\ UNCHANGED others

\* The host reads the data source with a configuration it has validated
\* and in which every value is known.
DoOrganizationDataRead ==
    /\ provider.dataSourceClient # Nil
    /\ lastOp.op = "OrganizationDataValidate"
    /\ ~HasError(lastOp.diags)
    /\ AllKnown(lastOp.plan[1])
    /\ \E o \in BackendOutcomes(OrganizationAnswers) :
          \E r \in {OrganizationDataSourceRead(backendClients, lastOp.plan[1], o)} :
              /\ orgData' = r.state
              /\ lastOp' = [OpRecord("OrganizationDataRead", lastOp.appID, lastOp.env,
                                     [reqs |-> r.reqs, err |-> NoError, resp |-> Nil])
                                EXCEPT !.diags = r.diags, !.plan = lastOp.plan,
                                       !.outcome = Some(o)]
    /\ UNCHANGED <<backendClients, registered, envState, appState, orgState, mu, pc, frame,
                   provider, appData>>

\* What the Platform API does with the data source's request.
ApplicationDataOutcomes ==
    {[kind |-> "response", status |-> 200, body |-> b] :
        b \in {BodyApplication, BodyApplicationNoSecrets, BodyErrorObject, BodyNotJSON}}
    \cup {[kind |-> "response", status |-> 404, body |-> BodyErrorObject],
          [kind |-> "transport", status |-> 0, body |-> ""]}

\* The host reads data.clerk_application; the client is the one Configure
\* stored, its key the one the provider resolved.
DoApplicationDataRead ==
    /\ provider.dataSourceClient # Nil
    /\ \E id \in PlatformAppIDs, o \in ApplicationDataOutcomes :
          \E r \in {ApplicationDataSourceRead(
                        provider.heap[provider.dataSourceClient[1]].PlatformAPIKey,
                        ApplicationDataSourceModel(StringValue(id)), o)} :
              /\ appData' = r.state
              /\ lastOp' = [OpRecord("ApplicationDataRead", id, << >>,
                                     [reqs |-> r.reqs, err |-> NoError, resp |-> Nil])
                                EXCEPT !.diags = r.diags, !.outcome = Some(o)]
    /\ UNCHANGED <<backendClients, registered, envState, appState, orgState, mu, pc, frame,
                   provider, orgData>>

NextProvider ==
    \/ DoApplicationDataRead
    \/ DoProviderConfigure
    \/ DoResourceConfigure
    \/ DoDataSourceConfigure
    \/ DoRegisterInstanceKey
    \/ DoOrganizationDataValidate
    \/ DoOrganizationDataRead

SpecProvider == Init /\ [][NextProvider]_vars

(* C12: Configure resolves the platform API key as the platform_api_key    *)
(* attribute when that is neither null nor unknown, and as the environment *)
(* variable otherwise; with an empty key it reports "Missing Platform API  *)
(* Key" and hands out no client; otherwise the resource and the data       *)
(* source receive the same client, built from the resolved key.            *)
ConfigureHandsOneClient ==
    provider.configured =>
        LET attr == provider.config[1]
            key == IF attr.st = "known" THEN attr.v ELSE provider.environ
        IN  IF key = ""
            THEN /\ \E i \in 1..Len(provider.diags) :
                       provider.diags[i] = ErrorDiag("Missing Platform API Key")
                 /\ provider.ResourceData = Nil
                 /\ provider.DataSourceData = Nil
                 /\ provider.resourceClient = Nil
                 /\ provider.dataSourceClient = Nil
            ELSE /\ ~HasError(provider.diags)
                 /\ provider.ResourceData # Nil
                 /\ provider.DataSourceData = provider.ResourceData
                 /\ provider.heap[provider.ResourceData[1]].PlatformAPIKey = key
                 /\ provider.resourceClient \in {Nil, provider.ResourceData}
                 /\ provider.dataSourceClient \in {Nil, provider.ResourceData}

\* Both the attribute and the variable are set, and both the resource and
\* the data source have been given the client.
ConfigureHandsOneClientWitness ==
    /\ provider.configured
    /\ provider.config = Some(StringValue(ConfigKey))
    /\ provider.environ = EnvKey
    /\ provider.resourceClient # Nil
    /\ provider.dataSourceClient # Nil

\* The attribute is set to the empty string while the variable holds a key.
ConfigureMissingKeyWitness ==
    /\ provider.configured
    /\ provider.config = Some(StringValue(""))
    /\ provider.environ = EnvKey
    /\ HasError(provider.diags)
    /\ lastOp.op = "DataSourceConfigure"


----------------------------------------------------------------------------
(* The registry over time (under Spec) *)

\* What GetBackendConfig answers for every pair, in registry m.
Lookups(m) == [p \in Pairs |-> GetBackendConfig(m, p[1], p[2])]

(* C13, as the code has it: an entry is replaced by every registration for *)
(* its pair. After RegisterBackendClient(appID, env, k) a lookup of the     *)
(* pair returns the configuration with key k, also when the pair held      *)
(* another key before; lookups of the other pairs answer as before, and no *)
(* other operation changes what any lookup answers.                        *)
LastRegistrationWins ==
    [][IF lastOp'.op = "RegisterBackendClient"
       THEN LET p == <<lastOp'.appID, lastOp'.env>>
            IN  /\ Lookups(backendClients')[p].err = NoError
                /\ Lookups(backendClients')[p].config[1].Key = registered'[p].last
                /\ \A q \in Pairs \ {p} :
                      Lookups(backendClients')[q] = Lookups(backendClients)[q]
       ELSE Lookups(backendClients') = Lookups(backendClients)]_vars

\* A pair was registered with both keys, and its lookup returns the later.
LastRegistrationWinsWitness ==
    /\ lastOp.op = "GetBackendConfig"
    /\ Cardinality(registered[<<lastOp.appID, lastOp.env>>].ever) = 2
    /\ lastOp.cfg # Nil
    /\ lastOp.cfg[1].Key = registered[<<lastOp.appID, lastOp.env>>].last

\* C13 as stated: once a lookup of a pair returns a configuration, it
\* returns the configuration with the same key after every later step.
EntriesAreWriteOnce ==
    [][\A p \in Pairs :
          Lookups(backendClients)[p].err = NoError =>
              Lookups(backendClients')[p] = Lookups(backendClients)[p]]_vars

(* C14: no operation removes or expires an entry. Once                     *)
(* RegisterBackendClient has returned for a pair, GetBackendConfig finds a *)
(* configuration for that pair in every later state, whatever calls of     *)
(* either endpoint family ran in between and however they ended.           *)
EntriesNeverRemoved ==
    \A p \in Pairs :
        registered[p].last # Nil =>
            /\ Lookups(backendClients)[p].err = NoError
            /\ Lookups(backendClients)[p].config # Nil

\* A per-instance call of a registered pair has just failed at the API,
\* while a second pair is registered as well.
EntriesNeverRemovedWitness ==
    /\ lastOp.op \in PerInstanceOps
    /\ lastOp.reqs # << >>
    /\ lastOp.err # NoError
    /\ Cardinality({p \in Pairs : registered[p].last # Nil}) = MaxEntries

\* A Platform API call has just failed, with entries in the registry.
EntriesSurvivePlatformFailureWitness ==
    /\ lastOp.op \in PlatformOps
    /\ lastOp.err # NoError
    /\ \E p \in Pairs : registered[p].last # Nil


----------------------------------------------------------------------------
(* The clerk_environment resource's identifiers (under SpecEnvironment) *)

(* C15: in every state saved for the resource, by Create, Read, Update or  *)
(* ImportState, the three identifiers are known and id is application_id,  *)
(* a "/", and environment, of that same state.                             *)
IDIsApplicationSlashEnvironment ==
    envState # Nil =>
        /\ IsSet(envState[1].ID)
        /\ IsSet(envState[1].ApplicationID)
        /\ IsSet(envState[1].Environment)
        /\ envState[1].ID.v =
              envState[1].ApplicationID.v \o <<Slash>> \o envState[1].Environment.v

\* An Update of app_1/production has sent its requests and saved its plan.
IDIsApplicationSlashEnvironmentWitness ==
    /\ lastOp.op = "EnvironmentUpdate"
    /\ ~HasError(lastOp.diags)
    /\ lastOp.reqs # << >>
    /\ envState # Nil
    /\ envState[1] = lastOp.plan[1]
    /\ envState[1].ID.v = Join(App1, Production)

IDSavedByImportWitness ==
    /\ lastOp.op = "EnvironmentImportState"
    /\ envState # Nil
    /\ envState[1].ID.v = Join(App2, Development)

IDSavedByCreateWitness ==
    /\ lastOp.op = "EnvironmentCreate"
    /\ envState # Nil
    /\ lastOp.plan[1].ID = IdentUnknown


----------------------------------------------------------------------------
(* The clerk_organization resource's import (under SpecApplication) *)

Suffixes(x) == {SubSeq(x, k, Len(x)) : k \in 1..(Len(x) + 1)}

\* What lies between a prefix a and a suffix o of id and the slashes
\* that follow a and precede o.
Between(id, a, o) == SubSeq(id, Len(a) + 2, Len(id) - Len(o) - 1)

(* C16: an import id <application_id>/<environment>/<organization_id>, its *)
(* three parts free of slashes and the outer two not empty, is accepted    *)
(* exactly when the environment is development or production; the state    *)
(* then holds the three parts as application id, environment and           *)
(* organization id. With any other environment part the import fails with  *)
(* an error and leaves no state.                                           *)
OrganizationImportSplits ==
    lastOp.op = "OrganizationImportState" =>
        \A a \in Prefixes(lastOp.appID), o \in Suffixes(lastOp.appID) :
            (/\ a # << >> /\ SlashFree(a)
             /\ o # << >> /\ SlashFree(o)
             /\ Len(a) + Len(o) + 2 <= Len(lastOp.appID)
             /\ SlashFree(Between(lastOp.appID, a, o))
             /\ lastOp.appID = Join3(a, Between(lastOp.appID, a, o), o))
            => IF Between(lastOp.appID, a, o) \in {Development, Production}
               THEN /\ ~HasError(lastOp.diags)
                    /\ orgState # Nil
                    /\ orgState[1].ApplicationID = StringValue(a)
                    /\ orgState[1].Environment = StringValue(Between(lastOp.appID, a, o))
                    /\ orgState[1].OrganizationID = StringValue(o)
               ELSE HasError(lastOp.diags) /\ orgState = Nil

\* app_1/development/org_1 has been imported.
OrganizationImportSplitsWitness ==
    /\ lastOp.op = "OrganizationImportState"
    /\ lastOp.appID = Join3(App1, Development, Org1)
    /\ orgState # Nil
    /\ orgState[1].ApplicationID = StringValue(App1)
    /\ orgState[1].Environment = StringValue(Development)
    /\ orgState[1].OrganizationID = StringValue(Org1)

OrganizationImportRejectsStagingWitness ==
    /\ lastOp.op = "OrganizationImportState"
    /\ lastOp.appID = Join3(App1, Staging, Org1)
    /\ HasError(lastOp.diags)
    /\ orgState = Nil


----------------------------------------------------------------------------
(* The clerk_organization data source (under SpecProvider) *)

\* The lookup of the Read that ran last failed: the pair has no registry
\* entry, or the API call did not succeed.
LookupFailed ==
    \/ backendClientKey(lastOp.appID, lastOp.env) \notin DOMAIN backendClients
    \/ lastOp.outcome[1].kind # "ok"

(* C17: the data source's validation rejects a known configuration that    *)
(* gives neither or both of id and slug and accepts one that gives exactly *)
(* one; Read then sends one GET for the id when id is given and for the    *)
(* slug otherwise (none without a registry entry); when the lookup fails   *)
(* it adds an error and writes no state, and when it succeeds it writes    *)
(* the organization that was returned.                                     *)
OrganizationDataLookup ==
    /\ lastOp.op = "OrganizationDataValidate" =>
          LET data == lastOp.plan[1]
          IN  (~IsUnknown(data.ID) /\ ~IsUnknown(data.Slug)) =>
                  /\ IsNull(data.ID) = IsNull(data.Slug) => HasError(lastOp.diags)
                  /\ (IsNull(data.ID) # IsNull(data.Slug) /\ data.Environment.v \in EnvNames)
                         => ~HasError(lastOp.diags)
    /\ lastOp.op = "OrganizationDataRead" =>
          LET data == lastOp.plan[1]
              key == IF ~IsNull(data.ID) THEN data.ID.v ELSE data.Slug.v
          IN  /\ IsNull(data.ID) # IsNull(data.Slug)
              /\ \A i \in 1..Len(lastOp.reqs) :
                    /\ lastOp.reqs[i].method = "GET"
                    /\ lastOp.reqs[i].path = <<"/v1/organizations/", key>>
              /\ Len(lastOp.reqs) =
                    IF backendClientKey(lastOp.appID, lastOp.env) \in DOMAIN backendClients
                    THEN 1 ELSE 0
              /\ IF LookupFailed
                 THEN HasError(lastOp.diags) /\ orgData = Nil
                 ELSE /\ ~HasError(lastOp.diags)
                      /\ orgData # Nil
                      /\ orgData[1].ID = StringValue(lastOp.outcome[1].resp.ID)
                      /\ orgData[1].Slug = StringValue(lastOp.outcome[1].resp.Slug)
                      /\ orgData[1].Name = StringValue(lastOp.outcome[1].resp.Name)

\* A Read by slug has succeeded.
OrganizationDataLookupWitness ==
    /\ lastOp.op = "OrganizationDataRead"
    /\ IsNull(lastOp.plan[1].ID)
    /\ lastOp.plan[1].Slug = StringValue(OrgSlug)
    /\ lastOp.reqs # << >>
    /\ orgData # Nil

\* A Read for a pair without a registry entry, after an earlier Read had
\* written a state and other pairs had been registered.
OrganizationDataNoEntryWitness ==
    /\ lastOp.op = "OrganizationDataRead"
    /\ lastOp.appID = App2
    /\ lastOp.reqs = << >>
    /\ HasError(lastOp.diags)
    /\ backendClients # NewClerkClient
    /\ orgData = Nil

OrganizationDataBothGivenWitness ==
    /\ lastOp.op = "OrganizationDataValidate"
    /\ lastOp.plan[1].ID = StringValue(OrgID)
    /\ lastOp.plan[1].Slug = StringValue(OrgSlug)
    /\ HasError(lastOp.diags)
    /\ orgData # Nil


----------------------------------------------------------------------------
(* The Platform API's requests (under SpecPlatform) *)

(* C18: a request of GetApplication or ListApplications carries the query  *)
(* parameter include_secret_keys=true when the call's includeSecretKeys    *)
(* flag is true, and no include_secret_keys parameter when the flag is     *)
(* false.                                                                  *)
SecretKeysOnlyOnRequest ==
    lastOp.op \in {"GetApplication", "ListApplications"} =>
        \A i \in 1..Len(lastOp.reqs) :
            /\ lastOp.args[1] => <<"include_secret_keys", "true">> \in lastOp.reqs[i].query
            /\ ~lastOp.args[1] =>
                  \A q \in lastOp.reqs[i].query : q[1] # "include_secret_keys"

\* The same for the calls whose application ID holds no "?": there the
\* parameter is the whole query with the flag, and the query is empty
\* without it.
SecretKeysOnlyOnRequestPlainID ==
    /\ lastOp.op \in {"GetApplication", "ListApplications"}
    /\ lastOp.appID = Nil \/ \A k \in 1..Len(lastOp.appID) : lastOp.appID[k] # "?"
    => \A i \in 1..Len(lastOp.reqs) :
           lastOp.reqs[i].query =
               IF lastOp.args[1] THEN {<<"include_secret_keys", "true">>} ELSE {}

\* GetApplication without the flag, for an application ID that ends in
\* "?include_secret_keys=true", has sent its request.
SecretKeysInApplicationIDWitness ==
    /\ lastOp.op = "GetApplication"
    /\ lastOp.appID = AppWithQuery
    /\ lastOp.args = Some(FALSE)
    /\ Len(lastOp.reqs) = 1
    /\ lastOp.reqs[1].query = {<<"include_secret_keys", "true">>}

\* ListApplications without the flag has sent its request.
SecretKeysOnlyOnRequestWitness ==
    /\ lastOp.op = "ListApplications"
    /\ lastOp.args = Some(FALSE)
    /\ lastOp.reqs # << >>
    /\ lastOp.reqs[1].query = {}

SecretKeysRequestedWitness ==
    /\ lastOp.op = "GetApplication"
    /\ lastOp.args = Some(TRUE)
    /\ lastOp.reqs # << >>
    /\ lastOp.resp = Some(ApplicationWithSecrets)

----------------------------------------------------------------------------
(* Requests per call (under SpecClient) *)

FailedOutcome(o) ==
    \/ o.kind \in {"transport", "readfail"}
    \/ o.kind = "response" /\ (o.status < 200 \/ o.status >= 300)

(* C19: a Platform API call sends one HTTP request, or none when its URL   *)
(* cannot be made into a request, which it reports as a "creating request" *)
(* error; a per-instance call sends one request, or none when its pair has *)
(* no registry entry; a call whose request failed returns an error having  *)
(* sent that one request and no other.                                     *)
OneRequestNoRetry ==
    /\ lastOp.op \in PlatformOps =>
          /\ Len(lastOp.reqs) <= 1
          /\ Len(lastOp.reqs) = 0 <=> lastOp.err = Wrap("creating request", Err("url"))
          /\ Len(lastOp.reqs) = 1 /\ FailedOutcome(lastOp.outcome[1]) =>
                lastOp.err # NoError
    /\ lastOp.op \in PerInstanceOps =>
          /\ Len(lastOp.reqs) <= 1
          /\ Len(lastOp.reqs) = 0 <=> registered[<<lastOp.appID, lastOp.env>>].last = Nil

\* A Platform API call got an error response and returned the error after
\* its one request.
OneRequestNoRetryWitness ==
    /\ lastOp.op \in PlatformOps
    /\ lastOp.outcome = Some([kind |-> "response", status |-> 500, body |-> BodyErrorObject])
    /\ Len(lastOp.reqs) = 1
    /\ lastOp.err = PlatformAPIError(500, BodyErrorObject)

\* A per-instance call failed after its one request.
PerInstanceNoRetryWitness ==
    /\ lastOp.op \in PerInstanceOps
    /\ Len(lastOp.reqs) = 1
    /\ lastOp.err # NoError

\* A Platform API call for an application ID that no URL can hold has
\* returned without a request.
NoRequestSentWitness ==
    /\ lastOp.op \in PlatformOps
    /\ lastOp.appID = AppMalformed
    /\ lastOp.reqs = << >>
    /\ lastOp.err # NoError

\* C19 as the specification words it: every Platform API call sends exactly
\* one request, and every per-instance call at most one.
ExactlyOneRequestPerCall ==
    /\ lastOp.op \in PlatformOps => Len(lastOp.reqs) = 1
    /\ lastOp.op \in PerInstanceOps => Len(lastOp.reqs) <= 1

----------------------------------------------------------------------------
(* Delete's resets (under SpecEnvironment) *)

ResetAfterFailedRestrictionsWitness ==
    /\ lastOp.op = "EnvironmentDelete"
    /\ lastOp.outcome[1].settings.kind = "ok"
    /\ lastOp.outcome[1].restrictions.kind = "transport"
    /\ lastOp.outcome[1].organization.kind = "ok"
    /\ Len(lastOp.reqs) = 3
    /\ lastOp.diags = <<[severity |-> "warning",
                         summary |-> "Failed to reset instance restrictions"]>>

\* Without a registry entry the three resets were attempted and each one
\* failed before a request.
ResetsUnregisteredWitness ==
    /\ lastOp.op = "EnvironmentDelete"
    /\ backendClientKey(lastOp.appID, lastOp.env) \notin DOMAIN backendClients
    /\ lastOp.reqs = << >>
    /\ Len(lastOp.diags) = 3
    /\ lastOp.diags[3].summary = "Failed to reset organization settings"

----------------------------------------------------------------------------
(* Create and Update of clerk_environment (under SpecEnvironment) *)

\* What the Backend API did with a request of a Create or an Update.
AnswerTo(eos, req) ==
    IF req.path = <<"/v1/instance">> THEN eos.settings
    ELSE IF req.path = <<"/v1/instance/restrictions">> THEN eos.restrictions
    ELSE eos.organization

RequestFailed(op) ==
    \E i \in 1..Len(op.reqs) : AnswerTo(op.outcome[1], op.reqs[i]).kind # "ok"

(* C21: a Create or an Update of a clerk_environment one of whose requests *)
(* failed, or which reports an error for any other reason, carries an      *)
(* error diagnostic and writes no state: after the Create there is no      *)
(* resource, after the Update the state is the one before it, also when    *)
(* earlier requests of the same call succeeded.                            *)
FailedApplyWritesNoState ==
    [][/\ (lastOp'.op = "EnvironmentCreate"
            /\ (RequestFailed(lastOp') \/ HasError(lastOp'.diags)))
           => HasError(lastOp'.diags) /\ envState = Nil /\ envState' = Nil
       /\ (lastOp'.op = "EnvironmentUpdate"
            /\ (RequestFailed(lastOp') \/ HasError(lastOp'.diags)))
           => HasError(lastOp'.diags) /\ envState' = envState]_vars

\* An Update whose first request succeeded and whose second failed left
\* the state it found, which is not the plan.
FailedApplyWritesNoStateWitness ==
    /\ lastOp.op = "EnvironmentUpdate"
    /\ Len(lastOp.reqs) = 2
    /\ lastOp.outcome[1].settings.kind = "ok"
    /\ lastOp.outcome[1].restrictions.kind = "transport"
    /\ HasError(lastOp.diags)
    /\ envState # Nil
    /\ envState # lastOp.plan

\* A Create whose first two requests succeeded and whose third failed left
\* no resource.
FailedCreateWitness ==
    /\ lastOp.op = "EnvironmentCreate"
    /\ Len(lastOp.reqs) = 3
    /\ lastOp.outcome[1].organization.kind = "api"
    /\ HasError(lastOp.diags)
    /\ envState = Nil

\* A Create for a pair without a registry entry failed before any request.
FailedCreateUnregisteredWitness ==
    /\ lastOp.op = "EnvironmentCreate"
    /\ lastOp.reqs = << >>
    /\ HasError(lastOp.diags)
    /\ envState = Nil

\* The step of applySettings a request belongs to.
StepOf(req) ==
    IF req.path = <<"/v1/instance">> THEN 1
    ELSE IF req.path = <<"/v1/instance/restrictions">> THEN 2
    ELSE 3

ErrorCount(diags) == Cardinality({i \in 1..Len(diags) : diags[i].severity = "error"})

(* C22: the requests of one Create or Update are sent in the order         *)
(* instance settings, restrictions, organization settings, at most one of  *)
(* each; a request that failed is the last one sent, and the call reports  *)
(* at most one error, that of the step it stopped at.                      *)
ApplyInOrderStopsAtError ==
    lastOp.op \in {"EnvironmentCreate", "EnvironmentUpdate"} =>
        /\ \A i, j \in 1..Len(lastOp.reqs) :
              i < j => StepOf(lastOp.reqs[i]) < StepOf(lastOp.reqs[j])
        /\ \A i \in 1..Len(lastOp.reqs) :
              AnswerTo(lastOp.outcome[1], lastOp.reqs[i]).kind # "ok" =>
                  /\ i = Len(lastOp.reqs)
                  /\ HasError(lastOp.diags)
        /\ ErrorCount(lastOp.diags) <= 1
        /\ backendClientKey(lastOp.appID, lastOp.env) \notin DOMAIN backendClients =>
              lastOp.reqs = << >>

\* The first step failed under a plan that holds restrictions and
\* organization settings, and nothing was sent after it.
ApplyInOrderStopsAtErrorWitness ==
    /\ lastOp.op = "EnvironmentCreate"
    /\ lastOp.outcome[1].settings.kind = "api"
    /\ IsSet(lastOp.plan[1].Restrictions)
    /\ IsSet(lastOp.plan[1].OrganizationSettings)
    /\ Len(lastOp.reqs) = 1
    /\ lastOp.reqs[1].path = <<"/v1/instance">>

\* All three steps ran, in their order.
ApplyAllStepsWitness ==
    /\ lastOp.op = "EnvironmentUpdate"
    /\ ~HasError(lastOp.diags)
    /\ Len(lastOp.reqs) = 3
    /\ lastOp.reqs[2].path = <<"/v1/instance/restrictions">>
    /\ lastOp.reqs[3].path = <<"/v1/instance/organization_settings">>

\* The second step failed and the third, which the plan asks for, was not
\* sent.
ApplyStopsAtRestrictionsWitness ==
    /\ lastOp.op = "EnvironmentUpdate"
    /\ lastOp.outcome[1].restrictions.kind = "transport"
    /\ IsSet(lastOp.plan[1].OrganizationSettings)
    /\ Len(lastOp.reqs) = 2
    /\ lastOp.reqs[2].path = <<"/v1/instance/restrictions">>

InstanceSettingNames ==
    {"TestMode", "HIBP", "EnhancedEmailDeliverability", "SupportEmail", "ClerkJSVersion",
     "URLBasedSessionSyncing", "DevelopmentOrigin"}

(* C23: a Create or an Update sends PATCH /v1/instance exactly when one of *)
(* the seven instance-setting attributes of the plan is neither null nor   *)
(* unknown; the request then holds each such attribute with the plan's     *)
(* value and no other field. When all seven are null or unknown the step   *)
(* sends nothing and looks nothing up, so it cannot fail either.           *)
InstanceSettingsSparse ==
    lastOp.op \in {"EnvironmentCreate", "EnvironmentUpdate"} =>
        LET plan == lastOp.plan[1]
            set == {f \in InstanceSettingNames : plan[f].st = "known"}
            sent == {i \in 1..Len(lastOp.reqs) : lastOp.reqs[i].path = <<"/v1/instance">>}
            failed == \E i \in 1..Len(lastOp.diags) :
                          lastOp.diags[i].summary = "Error updating instance settings"
            unregistered ==
                backendClientKey(lastOp.appID, lastOp.env) \notin DOMAIN backendClients
        IN  /\ set = {} => sent = {} /\ ~failed
            /\ set # {} /\ unregistered => sent = {} /\ failed
            /\ set # {} /\ ~unregistered =>
                  /\ sent = {1}
                  /\ lastOp.reqs[1].method = "PATCH"
                  /\ \A f \in InstanceSettingNames :
                        lastOp.reqs[1].body[1][f] =
                            IF f \in set THEN Some(plan[f].v) ELSE Nil
                  /\ DOMAIN lastOp.reqs[1].body[1] = InstanceSettingNames

\* Two of the seven attributes are set, and the request holds these two.
InstanceSettingsSparseWitness ==
    /\ lastOp.op = "EnvironmentCreate"
    /\ lastOp.plan[1].HIBP = BoolValue(TRUE)
    /\ IsUnknown(lastOp.plan[1].TestMode)
    /\ Len(lastOp.reqs) >= 1
    /\ lastOp.reqs[1].body[1].HIBP = Some(TRUE)
    /\ lastOp.reqs[1].body[1].SupportEmail = Some("support@test.com")
    /\ lastOp.reqs[1].body[1].TestMode = Nil

\* None of the seven is set and the pair has no registry entry: the Create
\* sends nothing and succeeds.
InstanceSettingsNoLookupWitness ==
    /\ lastOp.op = "EnvironmentCreate"
    /\ \A f \in InstanceSettingNames : lastOp.plan[1][f].st = "unknown"
    /\ backendClientKey(lastOp.appID, lastOp.env) \notin DOMAIN backendClients
    /\ lastOp.reqs = << >>
    /\ lastOp.diags = << >>
    /\ envState # Nil

RestrictionNames ==
    {"Allowlist", "Blocklist", "BlockEmailSubaddresses", "BlockDisposableEmailDomains",
     "IgnoreDotsForGmailAddresses"}

HasSummary(diags, summary) == \E i \in 1..Len(diags) : diags[i].summary = summary

RequestsTo(reqs, path) == {i \in 1..Len(reqs) : reqs[i].path = path}

BlocksEmptyStillSentWitness ==
    /\ lastOp.op = "EnvironmentUpdate"
    /\ lastOp.plan[1].Restrictions = RestrictionsEmpty
    /\ lastOp.plan[1].OrganizationSettings = OrgEmpty
    /\ Len(lastOp.reqs) = 2
    /\ \A f \in RestrictionNames : lastOp.reqs[1].body[1][f] = Nil
    /\ lastOp.reqs[2].path = <<"/v1/instance/organization_settings">>

\* Neither block is in the plan: nothing is sent for them and the state
\* holds them as the plan did.
BlocksAbsentWitness ==
    /\ lastOp.op = "EnvironmentCreate"
    /\ ~HasError(lastOp.diags)
    /\ lastOp.plan[1].Restrictions = RestrictionsUnknown
    /\ lastOp.plan[1].OrganizationSettings = OrganizationSettingsUnknown
    /\ Len(lastOp.reqs) = 1
    /\ envState[1].Restrictions = RestrictionsUnknown

(* C25: after a successful Create or Update whose plan holds an            *)
(* organization_settings block, creator_role_id and                        *)
(* domains_default_role_id in the state are the plan's, whatever role keys *)
(* the API's answer held, and enabled, max_allowed_memberships,            *)
(* admin_delete_enabled, domains_enabled and domains_enrollment_modes are  *)
(* the answer's values.                                                    *)
RoleIDsFromPlanRestFromAnswer ==
    (/\ lastOp.op \in {"EnvironmentCreate", "EnvironmentUpdate"}
     /\ ~HasError(lastOp.diags)
     /\ lastOp.plan[1].OrganizationSettings.st = "known")
    => LET planned == lastOp.plan[1].OrganizationSettings.v
           saved == envState[1].OrganizationSettings.v
           sentO == RequestsTo(lastOp.reqs, <<"/v1/instance/organization_settings">>)
       IN  /\ envState[1].OrganizationSettings.st = "known"
           /\ saved.CreatorRoleID = planned.CreatorRoleID
           /\ saved.DomainsDefaultRoleID = planned.DomainsDefaultRoleID
           /\ sentO # {}
           /\ \A i \in sentO :
                 LET answer == ServerOrganizationSettings(
                                   lastOp.reqs[i].body[1],
                                   lastOp.outcome[1].organization.remote)
                 IN  /\ saved.Enabled = [st |-> "known", v |-> answer.Enabled]
                     /\ saved.MaxAllowedMemberships =
                           [st |-> "known", v |-> answer.MaxAllowedMemberships]
                     /\ saved.AdminDeleteEnabled =
                           [st |-> "known", v |-> answer.AdminDeleteEnabled]
                     /\ saved.DomainsEnabled = [st |-> "known", v |-> answer.DomainsEnabled]
                     /\ saved.DomainsEnrollmentModes.st = "known"
                     /\ Len(saved.DomainsEnrollmentModes.v) =
                           Len(answer.DomainsEnrollmentModes)
                     /\ \A k \in 1..Len(answer.DomainsEnrollmentModes) :
                           saved.DomainsEnrollmentModes.v[k] =
                               [st |-> "known", v |-> answer.DomainsEnrollmentModes[k]]

\* The plan names role ids, the answer holds role keys, and the state holds
\* the plan's role ids next to the answer's other values.
RoleIDsFromPlanRestFromAnswerWitness ==
    /\ lastOp.op = "EnvironmentCreate"
    /\ ~HasError(lastOp.diags)
    /\ lastOp.plan[1].OrganizationSettings = OrgFull
    /\ lastOp.outcome[1].organization.remote.CreatorRole = "org:admin"
    /\ envState[1].OrganizationSettings.v.CreatorRoleID = StringValue("role_admin")
    /\ envState[1].OrganizationSettings.v.DomainsDefaultRoleID = StringValue("role_member")
    /\ envState[1].OrganizationSettings.v.MaxAllowedMemberships = Int64Value(25)

\* The plan leaves admin_delete_enabled and the role ids unset: the state
\* holds the answer's admin_delete_enabled and the plan's unknown role ids.
RoleIDsUnsetWitness ==
    /\ lastOp.op = "EnvironmentUpdate"
    /\ ~HasError(lastOp.diags)
    /\ lastOp.plan[1].OrganizationSettings = OrgEnabledMax
    /\ envState[1].OrganizationSettings.v.AdminDeleteEnabled = BoolValue(TRUE)
    /\ envState[1].OrganizationSettings.v.CreatorRoleID = StringUnknown

----------------------------------------------------------------------------
(* DeleteApplication's answer (under SpecPlatform) *)

(* C26: DeleteApplication returns nil exactly when its request was         *)
(* answered with a status in 200..299 and a body that says deleted: true.  *)
(* A 2xx answer whose body is an object without deleted: true gives the    *)
(* "was not deleted" error, a 2xx answer whose body does not parse gives   *)
(* the "unmarshaling delete response" error, and any other status gives a  *)
(* PlatformAPIError.                                                       *)
DeleteNilOnlyWhenDeleted ==
    lastOp.op = "DeleteApplication" =>
        LET o == lastOp.outcome[1]
            answered == lastOp.reqs # << >> /\ o.kind = "response"
            twoxx == answered /\ o.status >= 200 /\ o.status <= 299
        IN  /\ lastOp.err = NoError <=> (twoxx /\ o.body = BodyDeletedTrue)
            /\ twoxx /\ o.body \in JSONObjects \ {BodyDeletedTrue} =>
                  lastOp.err = Err("application was not deleted")
            /\ twoxx /\ o.body \notin JSONObjects =>
                  lastOp.err = Wrap("unmarshaling delete response", Err("json"))
            /\ answered /\ ~twoxx => lastOp.err.kind = "PlatformAPIError"

\* 200 with deleted: false is an error.
DeleteNilOnlyWhenDeletedWitness ==
    /\ lastOp.op = "DeleteApplication"
    /\ lastOp.outcome[1].status = 200
    /\ lastOp.outcome[1].body = BodyDeletedFalse
    /\ Len(lastOp.reqs) = 1
    /\ lastOp.err = Err("application was not deleted")

\* 200 with deleted: true is the one answer without an error.
DeleteSucceededWitness ==
    /\ lastOp.op = "DeleteApplication"
    /\ lastOp.outcome[1].status = 200
    /\ lastOp.outcome[1].body = BodyDeletedTrue
    /\ Len(lastOp.reqs) = 1
    /\ lastOp.err = NoError

\* 200 with a body that is no JSON, and 404 with deleted: true.
DeleteUnparsableWitness ==
    /\ lastOp.op = "DeleteApplication"
    /\ lastOp.outcome[1].status = 200
    /\ lastOp.outcome[1].body = BodyNotJSON
    /\ lastOp.err.wrap = "unmarshaling delete response"

DeleteNon2xxWitness ==
    /\ lastOp.op = "DeleteApplication"
    /\ lastOp.outcome[1].status = 404
    /\ lastOp.outcome[1].body = BodyDeletedTrue
    /\ Len(lastOp.reqs) = 1
    /\ lastOp.err = PlatformAPIError(404, BodyDeletedTrue)

----------------------------------------------------------------------------
(* Unknown values in the saved state (under SpecEnvironment) *)

NotUnknown(a) == a.st \in {"null", "known"}

OrganizationSettingNames ==
    {"Enabled", "MaxAllowedMemberships", "CreatorRoleID", "AdminDeleteEnabled",
     "DomainsEnabled", "DomainsEnrollmentModes", "DomainsDefaultRoleID"}

\* No attribute of a clerk_environment state, at any depth, is unknown.
FullyKnown(state) ==
    /\ \A f \in {"ID", "ApplicationID", "Environment"} \cup InstanceSettingNames :
          NotUnknown(state[f])
    /\ NotUnknown(state.Restrictions)
    /\ state.Restrictions.st = "known" =>
          \A f \in RestrictionNames : NotUnknown(state.Restrictions.v[f])
    /\ NotUnknown(state.OrganizationSettings)
    /\ state.OrganizationSettings.st = "known" =>
          /\ \A f \in OrganizationSettingNames :
                NotUnknown(state.OrganizationSettings.v[f])
          /\ LET modes == state.OrganizationSettings.v.DomainsEnrollmentModes
             IN  modes.st = "known" => \A k \in 1..Len(modes.v) : NotUnknown(modes.v[k])

(* C28: after a Create or an Update of a clerk_environment that reported   *)
(* no error, the saved state holds no unknown value: every attribute, the  *)
(* attributes of the two blocks included, is null or known.                *)
SavedStateFullyKnown ==
    (lastOp.op \in {"EnvironmentCreate", "EnvironmentUpdate"} /\ ~HasError(lastOp.diags))
    => envState # Nil /\ FullyKnown(envState[1])

\* A Create whose plan sets hibp and support_email only has saved the
\* unknown test_mode of the plan; one whose plan sets two organization
\* settings has saved the unknown creator_role_id.
UnknownSettingSavedWitness ==
    /\ lastOp.op = "EnvironmentCreate"
    /\ ~HasError(lastOp.diags)
    /\ lastOp.plan[1].HIBP = BoolValue(TRUE)
    /\ envState # Nil
    /\ envState[1].HIBP = BoolValue(TRUE)
    /\ envState[1].TestMode = BoolUnknown

UnknownRoleIDSavedWitness ==
    /\ lastOp.op = "EnvironmentCreate"
    /\ ~HasError(lastOp.diags)
    /\ lastOp.plan[1].OrganizationSettings = OrgEnabledMax
    /\ envState[1].OrganizationSettings.v.Enabled = BoolValue(TRUE)
    /\ envState[1].OrganizationSettings.v.CreatorRoleID = StringUnknown

\* What does hold: the five restrictions of a block that was applied are
\* known, as are the five organization settings taken from the answer.
AnsweredFieldsKnown ==
    (lastOp.op \in {"EnvironmentCreate", "EnvironmentUpdate"} /\ ~HasError(lastOp.diags))
    => /\ envState[1].ID.st = "known"
       /\ lastOp.plan[1].Restrictions.st = "known" =>
             \A f \in RestrictionNames : envState[1].Restrictions.v[f].st = "known"
       /\ lastOp.plan[1].OrganizationSettings.st = "known" =>
             \A f \in OrganizationSettingNames \ {"CreatorRoleID", "DomainsDefaultRoleID"} :
                 envState[1].OrganizationSettings.v[f].st = "known"

----------------------------------------------------------------------------
(* The clerk_application data source (under SpecProvider) *)

\* The instances of an application that have the given environment type,
\* in the application's order.
OfType(app, envType) ==
    SelectSeq(app.Instances, LAMBDA inst : inst.EnvironmentType = envType)

\* The attribute a Read leaves for a field of the instances of one type:
\* the last value among them, null when there is none.
LastOf(values) == IF values = << >> THEN StringNull ELSE StringValue(values[Len(values)])

(* C27: a Read of data.clerk_application sends one GET for the application *)
(* with include_secret_keys=true. When the call fails it adds an error and *)
(* writes no state. Otherwise dev_instance_id and dev_publishable_key are  *)
(* those of the development instance and null without one, dev_secret_key  *)
(* is the development instance's secret key and null when that is empty,   *)
(* the prod_ attributes are the same for the production instance, and an   *)
(* instance of any other type changes nothing.                             *)
ApplicationDataFromInstances ==
    lastOp.op = "ApplicationDataRead" =>
        LET o == lastOp.outcome[1]
            u == UnmarshalApplication(o.body)
            succeeded == /\ lastOp.reqs # << >>
                         /\ o.kind = "response" /\ o.status = 200 /\ u.ok
            dev == OfType(u.v, Development)
            prod == OfType(u.v, Production)
            keys(insts) == SelectSeq([i \in 1..Len(insts) |-> insts[i].SecretKey],
                                      LAMBDA k : k # "")
        IN  /\ \A i \in 1..Len(lastOp.reqs) :
                  /\ lastOp.reqs[i].method = "GET"
                  /\ <<"include_secret_keys", "true">> \in lastOp.reqs[i].query
            /\ Len(lastOp.reqs) <= 1
            /\ ~succeeded => HasError(lastOp.diags) /\ appData = Nil
            /\ succeeded =>
                  /\ lastOp.diags = << >>
                  /\ appData # Nil
                  /\ appData[1].ID = StringValue(lastOp.appID)
                  /\ appData[1].DevInstanceID =
                        LastOf([i \in 1..Len(dev) |-> dev[i].InstanceID])
                  /\ appData[1].DevPublishableKey =
                        LastOf([i \in 1..Len(dev) |-> dev[i].PublishableKey])
                  /\ appData[1].DevSecretKey = LastOf(keys(dev))
                  /\ appData[1].ProdInstanceID =
                        LastOf([i \in 1..Len(prod) |-> prod[i].InstanceID])
                  /\ appData[1].ProdPublishableKey =
                        LastOf([i \in 1..Len(prod) |-> prod[i].PublishableKey])
                  /\ appData[1].ProdSecretKey = LastOf(keys(prod))

\* The application has a development instance without a secret key and a
\* staging instance with one: dev_secret_key and the prod_ attributes stay
\* null.
ApplicationDataFromInstancesWitness ==
    /\ lastOp.op = "ApplicationDataRead"
    /\ lastOp.outcome[1].body = BodyApplicationNoSecrets
    /\ appData # Nil
    /\ appData[1].DevInstanceID = StringValue("ins_dev")
    /\ appData[1].DevSecretKey = StringNull
    /\ appData[1].ProdInstanceID = StringNull
    /\ appData[1].ProdSecretKey = StringNull

\* Both instances with their secret keys.
ApplicationDataSecretsWitness ==
    /\ lastOp.op = "ApplicationDataRead"
    /\ appData # Nil
    /\ appData[1].DevSecretKey = StringValue("sk_test_dev")
    /\ appData[1].ProdSecretKey = StringValue("sk_live_prod")
    /\ appData[1].ProdPublishableKey = StringValue("pk_live_prod")

\* The request was answered with a 404: an error and no state.
ApplicationDataErrorWitness ==
    /\ lastOp.op = "ApplicationDataRead"
    /\ lastOp.outcome[1].status = 404
    /\ Len(lastOp.reqs) = 1
    /\ HasError(lastOp.diags)
    /\ appData = Nil

-----------------------------------------------------------------------------
(* SpecKeys: the registry called with identifiers that may contain the     *)
(* separator backendClientKey puts between them. The application           *)
(* "app_1/development" with the environment "production" and the           *)
(* application "app_1" with the environment "development/production" have  *)
(* the key "app_1/development/production" in common.                       *)

KeyAppIDs == {App1, Join(App1, Development)}
KeyEnvNames == {Development, Production, Join(Development, Production)}
KeyPairs == KeyAppIDs \X KeyEnvNames

KeyLookups(m) == [p \in KeyPairs |-> GetBackendConfig(m, p[1], p[2])]

InitKeys ==
    /\ backendClients = NewClerkClient
    /\ registered = [p \in KeyPairs |-> NeverRegistered]
    /\ lastOp = NoOp
    /\ InitResources
    /\ InitGoroutines
    /\ InitProvider

DoRegisterBackendClientAny ==
    \E appID \in KeyAppIDs, env \in KeyEnvNames, secretKey \in SecretKeys :
        /\ Cardinality(DOMAIN backendClients \cup {backendClientKey(appID, env)}) <= MaxEntries
        /\ backendClients' = RegisterBackendClient(backendClients, appID, env, secretKey)
        /\ registered' = [registered EXCEPT ![<<appID, env>>] =
                             [last |-> Some(secretKey), ever |-> @.ever \cup {secretKey}]]
        /\ lastOp' = OpRecord("RegisterBackendClient", appID, env, NoCall(NoError))
        /\ UNCHANGED <<envState, appState, orgState, mu, pc, frame, provider, orgData, appData>>

DoGetBackendConfigAny ==
    \E appID \in KeyAppIDs, env \in KeyEnvNames :
        \E r \in {GetBackendConfig(backendClients, appID, env)} :
            /\ lastOp' = [OpRecord("GetBackendConfig", appID, env, NoCall(r.err))
                            EXCEPT !.cfg = r.config]
            /\ UNCHANGED others

NextKeys ==
    \/ DoRegisterBackendClientAny
    \/ DoGetBackendConfigAny

SpecKeys == InitKeys /\ [][NextKeys]_vars

(* C29: two different (appID, environment) pairs never share a registry    *)
(* entry: for every appID and environment, also ones that contain "/", a   *)
(* lookup of the pair returns a configuration only if RegisterBackendClient *)
(* was called with exactly this pair.                                      *)
PairsNeverShareEntry ==
    (lastOp.op = "GetBackendConfig" /\ lastOp.cfg # Nil) =>
        registered[<<lastOp.appID, lastOp.env>>].last # Nil

\* The lookup of ("app_1", "development/production"), a pair that was never
\* registered, returns the key registered for ("app_1/development",
\* "production").
SharedEntryWitness ==
    /\ lastOp.op = "GetBackendConfig"
    /\ lastOp.appID = App1
    /\ lastOp.env = Join(Development, Production)
    /\ registered[<<App1, Join(Development, Production)>>].last = Nil
    /\ registered[<<Join(App1, Development), Production>>].last # Nil
    /\ lastOp.err = NoError
    /\ lastOp.cfg # Nil
    /\ lastOp.cfg[1].Key = registered[<<Join(App1, Development), Production>>].last

\* What holds: while every environment that was registered and the one
\* looked up hold no "/", as the environments the resources pass
\* ("development" and "production"), a lookup returns a configuration only
\* for a pair that was registered, and it is the key registered for this
\* pair last. The application identifier may contain "/".
SlashFreeEnvironmentsNeverShareEntry ==
    (/\ lastOp.op = "GetBackendConfig"
     /\ lastOp.cfg # Nil
     /\ SlashFree(lastOp.env)
     /\ \A p \in KeyPairs : registered[p].last # Nil => SlashFree(p[2])) =>
        /\ registered[<<lastOp.appID, lastOp.env>>].last # Nil
        /\ lastOp.cfg[1].Key = registered[<<lastOp.appID, lastOp.env>>].last

\* A lookup of ("app_1/development", "development") answered with its own
\* key while ("app_1", "development") holds another one.
SlashFreeEnvironmentsWitness ==
    /\ lastOp.op = "GetBackendConfig"
    /\ lastOp.appID = Join(App1, Development)
    /\ lastOp.env = Development
    /\ lastOp.cfg # Nil
    /\ registered[<<App1, Development>>].last # Nil
    /\ registered[<<App1, Development>>].last # lastOp.cfg[1].Key
    /\ \A p \in KeyPairs : registered[p].last # Nil => SlashFree(p[2])

GetLeavesRegistryWitness ==
    /\ lastOp.op = "GetBackendConfig"
    /\ lastOp.cfg # Nil
    /\ Cardinality(DOMAIN backendClients) = MaxEntries

====
